---- MODULE Spec2Model ----
(***************************************************************************)
(* Transaction propagation engine of propagation-tx (package sql).         *)
(*                                                                         *)
(* One call chain is modelled: main calls TransactionManager.Transaction   *)
(* once with context.Background(); every bizFn may create one row through   *)
(* the handle it was given, call Transaction again with the context it was *)
(* given, and finally return nil, return an error or panic.  The driver    *)
(* (gorm on database/sql on MySQL) is modelled by what its calls do to the *)
(* physical transactions and to the rows visible to other connections.     *)
(* In SpecLater main, once its call has ended, calls Transaction again with *)
(* a carrier that a bizFn has handed out.                                   *)
(*                                                                         *)
(* The connection cache behind the DBFactory is modelled apart: goroutines *)
(* call dbCache.GetOrCreate and dbCache.Get concurrently, and createFunc   *)
(* may fail (SpecCache).                                                   *)
(***************************************************************************)
EXTENDS Naturals, Sequences, FiniteSets

VARIABLES
    heap,     \* the transactionContext objects allocated so far (carrier id -> fields)
    txs,      \* the physical transactions begun so far (id -> state, pending rows, savepoints)
    db,       \* the rows visible to every connection (committed or written in autocommit)
    frames,   \* one record per Transaction call made so far (frame id -> record)
    stack,    \* the frames whose bizFn is on the Go call stack, innermost last
    log,      \* the calls made on gorm handles, in order, with the frame that made them
    top,      \* what main has seen of its Transaction call: "idle", "running" or the result
    env,      \* what this run may do: whether the driver may fail BEGIN and
              \* COMMIT, the modes the callers use, the number of calls, the
              \* configuration of the handles
    cache,    \* the package's dbCache: its map dbConns and its RWMutex
    procs,    \* the goroutines that call the cache (goroutine -> position and locals)
    created,  \* the createFunc calls made so far and what they returned
    direct,   \* the calls main has made on a carrier, on the manager or on a
              \* factory constructor, each with what it returned
    configs   \* the ConnConfig objects of main (config id -> fields)

vars == <<heap, txs, db, frames, stack, log, top, env, cache, procs, created,
          direct, configs>>

\* the state of the transaction engine and the state of the connection cache
engine == <<heap, txs, db, frames, stack, log, top, env>>

conns == <<cache, procs, created>>

\* the calls made outside the frames and the goroutines, and their arguments
outer == <<direct, configs>>

----------------------------------------------------------------------------
(* Bounds of the model. *)

\* The number of Transaction calls of one run (the root call included).
MaxFrames == 3

\* The number of distinct function literals used as bizFn of Nested frames.
MaxFns == 2

\* The number of Transaction calls of one run in which the callers use
\* Required and Nested only.
MaxNestedFrames == 4

\* The number of propagations one Transaction call is given at most, in the
\* runs in which the callers give none, one or several.
MaxModes == 2

\* The number of Transaction calls of such a run.
MaxVariadicFrames == 2

\* The number of Transaction calls of one run on handles opened with
\* DisableNestedTransaction.
MaxDisabledFrames == 3

\* The number of Transaction calls of one run in which the callers also use
\* a mode that is none of the seven.
MaxUnknownFrames == 2

\* The number of Transaction calls of one run in which main, once its call
\* has ended, calls again with a carrier it has kept.
MaxLaterFrames == 2

\* The number of goroutines that call the connection cache.
MaxProcs == 2

\* The number of cache calls the goroutines make in all.
MaxCalls == 3

\* The number of distinct cache keys (host#port#database) in use.
MaxKeys == 1

\* The number of calls main makes itself on carriers and on the manager.
MaxDirect == 3

\* The number of ConnConfig objects main has.
MaxConfigs == 2

\* The number of NewConfigDBFactory calls main makes.
MaxFactoryCalls == 3

----------------------------------------------------------------------------
(* Propagation modes, transaction.go const block. *)

PropagationRequired == "Required"
PropagationSupports == "Supports"
PropagationMandatory == "Mandatory"
PropagationRequiresNew == "RequiresNew"
PropagationNotSupported == "NotSupported"
PropagationNested == "Nested"
PropagationNever == "Never"

Propagations ==
    { PropagationRequired, PropagationSupports, PropagationMandatory,
      PropagationRequiresNew, PropagationNotSupported, PropagationNested,
      PropagationNever }

defaultPropagation == PropagationRequired

\* a TransactionPropagation value that is none of the seven constants
PropagationUnknown == "Unknown"

(* Error values.  "nil" is the nil error; "panic" is not an error value but *)
(* the outcome of a call that unwound.                                      *)
Nil == "nil"
Panic == "panic"
ErrCommitWithoutTransaction == "ErrCommitWithoutTransaction"
ErrNeverPropInTransaction == "ErrNeverPropInTransaction"
ErrMandatoryPropWithoutTransaction == "ErrMandatoryPropWithoutTransaction"
mockErr == "mockErr"
BeginErr == "driver: begin failed"
CommitErr == "driver: commit failed"
ErrTxDone == "sql: transaction has already been committed or rolled back"

----------------------------------------------------------------------------
(* gorm handles (gorm.DB values).  kind "pool": Statement.ConnPool is the        *)
(* sql.DB; kind "tx": Statement.ConnPool is a sql.Tx (a gorm.TxCommitter)   *)
(* and phys names the physical transaction, 0 being the nil sql.Tx that     *)
(* a failed Begin leaves behind.                                            *)

NilDB == [kind |-> "nil", phys |-> 0]
PoolDB == [kind |-> "pool", phys |-> 0]
TxHandle(p) == [kind |-> "tx", phys |-> p]

\* context.Background(): the only context of the model that is no carrier.
Background == 0

\* the type assertion of ctx to a transactionContext pointer
IsCarrier(ctx) == ctx # Background

(* The methods of transactionContext, on a carrier record c = [ctx, tx,     *)
(* parent]; parent 0 is the nil parent.                                     *)
IsRoot(c) == c.parent = 0

Ctx(c) == c.ctx

TxDB(c) == c.tx

TxError(c) == IF c.tx # NilDB /\ c.tx.kind = "tx" /\ c.tx.phys = 0 THEN BeginErr ELSE Nil

\* Mutant: InTransaction() asks the sql.Tx whether it is still open.
InTransaction_Live(c) ==
    c.tx # NilDB /\ c.tx.kind = "tx" /\ c.tx.phys # 0 /\ txs[c.tx.phys].state = "open"

InTransaction(c) == c.tx # NilDB /\ c.tx.kind = "tx"

\* Mutant: the carrier Session() makes has no parent.
Session_NoParent(k) == [ctx |-> heap[k].ctx, tx |-> heap[k].tx, parent |-> 0]

\* Mutant: Session() takes its handle from the pool instead of the carrier.
Session_FromPool(k) == [ctx |-> heap[k].ctx, tx |-> PoolDB, parent |-> k]

\* Session(): WithContext gives a handle on the same ConnPool.
Session(k) == [ctx |-> heap[k].ctx, tx |-> heap[k].tx, parent |-> k]

\* the test every mode makes on its ctx: ok && txCtx.InTransaction()
AmbientLive(ctx) == IsCarrier(ctx) /\ InTransaction(heap[ctx])

\* m.getPureDB(ctx): the pool handle bound to ctx
getPureDB(ctx) == PoolDB

\* m.GetDB(ctx): the handle of the carrier when ctx is a carrier with a
\* handle, the pool handle otherwise
GetDB(ctx) == IF IsCarrier(ctx) /\ heap[ctx].tx # NilDB THEN heap[ctx].tx ELSE getPureDB(ctx)

----------------------------------------------------------------------------
(* The driver.  A world is the part of the state that driver calls read    *)
(* and change: [txs, db, log].  Every operator below is one call on a gorm *)
(* handle h made by frame f and yields the world after it.                  *)

World == [txs |-> txs, db |-> db, log |-> log]

Entry(op, p, f, arg, res) == [op |-> op, tx |-> p, by |-> f, arg |-> arg, res |-> res]

Logged(w, e) == [w EXCEPT !.log = Append(@, e)]

IsOpen(w, h) == h.kind = "tx" /\ h.phys # 0 /\ w.txs[h.phys].state = "open"

Rows(seq) == { seq[i] : i \in 1..Len(seq) }

\* db.Begin(): a new physical transaction on a connection of the pool, or,
\* when the driver fails, a handle that carries the error and a nil sql.Tx.
BeginHandle(w, ok) == IF ok THEN TxHandle(Len(w.txs) + 1) ELSE TxHandle(0)

GormBegin(w, f, ok) ==
    IF ok
    THEN Logged([w EXCEPT !.txs = Append(@, [state |-> "open", pending |-> <<>>, sps |-> <<>>])],
                Entry("BEGIN", Len(w.txs) + 1, f, 0, "ok"))
    ELSE Logged(w, Entry("BEGIN", 0, f, 0, "fail"))

\* tx.Commit(): database/sql marks the transaction done whatever the driver
\* answers; the pending rows become visible only when COMMIT succeeds.
CommitError(w, h, ok) ==
    IF h.phys = 0 THEN BeginErr
    ELSE IF ~IsOpen(w, h) THEN ErrTxDone ELSE IF ok THEN Nil ELSE CommitErr

GormCommit(w, h, f, ok) ==
    IF ~IsOpen(w, h)
    THEN Logged(w, Entry("COMMIT", h.phys, f, 0, IF h.phys = 0 THEN "nil" ELSE "done"))
    ELSE IF ok
    THEN Logged([w EXCEPT !.txs[h.phys].state = "committed",
                          !.db = @ \cup Rows(w.txs[h.phys].pending)],
                Entry("COMMIT", h.phys, f, 0, "ok"))
    ELSE Logged([w EXCEPT !.txs[h.phys].state = "aborted"],
                Entry("COMMIT", h.phys, f, 0, "fail"))

\* tx.Rollback(): the pending rows are dropped; on a transaction that is
\* already done database/sql answers ErrTxDone and sends nothing ("done"),
\* and on the nil sql.Tx of a failed Begin gorm sends nothing ("nil").
GormRollback(w, h, f) ==
    IF ~IsOpen(w, h)
    THEN Logged(w, Entry("ROLLBACK", h.phys, f, 0, IF h.phys = 0 THEN "nil" ELSE "done"))
    ELSE Logged([w EXCEPT !.txs[h.phys].state = "rolledback"],
                Entry("ROLLBACK", h.phys, f, 0, "ok"))

\* tx.Create(row): autocommit on a pool handle, pending inside an open
\* transaction, refused with ErrTxDone on a finished one.
GormCreate(w, h, f, row) ==
    IF h.kind = "pool"
    THEN Logged([w EXCEPT !.db = @ \cup {row}], Entry("CREATE", 0, f, row, "ok"))
    ELSE IF IsOpen(w, h)
    THEN Logged([w EXCEPT !.txs[h.phys].pending = Append(@, row)],
                Entry("CREATE", h.phys, f, row, "ok"))
    ELSE Logged(w, Entry("CREATE", h.phys, f, row, "done"))

\* The savepoints of a transaction are a sequence of [name, pos], oldest
\* first, pos being the number of rows pending when the savepoint was set.
\* MySQL: a SAVEPOINT whose name is in use deletes the older savepoint.
SelectSeq2(seq, name) ==
    LET keep(sp) == sp.name # name IN SelectSeq(seq, keep)

SpIndex(seq, name) ==
    IF \E i \in 1..Len(seq) : seq[i].name = name
    THEN CHOOSE i \in 1..Len(seq) : seq[i].name = name
    ELSE 0

GormSavePoint(w, h, f, name) ==
    IF ~IsOpen(w, h)
    THEN Logged(w, Entry("SAVEPOINT", h.phys, f, name, "done"))
    ELSE Logged([w EXCEPT !.txs[h.phys].sps =
                     Append(SelectSeq2(@, name),
                            [name |-> name, pos |-> Len(w.txs[h.phys].pending)])],
                Entry("SAVEPOINT", h.phys, f, name, "ok"))

\* ROLLBACK TO SAVEPOINT name: the rows written after the savepoint are
\* dropped and the savepoints set after it are deleted; the savepoint itself
\* stays.  An unknown name is an error of the server and changes nothing.
GormRollbackTo(w, h, f, name) ==
    IF ~IsOpen(w, h)
    THEN Logged(w, Entry("ROLLBACK TO", h.phys, f, name, "done"))
    ELSE LET sps == w.txs[h.phys].sps
             i == SpIndex(sps, name)
         IN IF i = 0
            THEN Logged(w, Entry("ROLLBACK TO", h.phys, f, name, "fail"))
            ELSE Logged([w EXCEPT !.txs[h.phys].pending = SubSeq(@, 1, sps[i].pos),
                                  !.txs[h.phys].sps = SubSeq(@, 1, i)],
                        Entry("ROLLBACK TO", h.phys, f, name, "ok"))

\* Mutant: the test on IsRoot is inverted, so the root carrier never reaches
\* the driver.
Rollback_NonRoot(w, c, f) ==
    IF InTransaction(c) /\ ~IsRoot(c) THEN GormRollback(w, c.tx, f) ELSE w

\* Mutant: Rollback() does not test IsRoot().
Rollback_AnyCarrier(w, c, f) ==
    IF InTransaction(c) THEN GormRollback(w, c.tx, f) ELSE w

\* Rollback(): only a root carrier in a transaction reaches the driver.
Rollback(w, c, f) ==
    IF InTransaction(c) /\ IsRoot(c) THEN GormRollback(w, c.tx, f) ELSE w

\* Mutant: the test on IsRoot is inverted, so the root carrier never reaches
\* the driver.
Commit_NonRoot(w, c, f, ok) ==
    IF ~InTransaction(c) THEN w
    ELSE IF ~IsRoot(c) THEN GormCommit(w, c.tx, f, ok)
    ELSE w

\* Mutant: Commit() answers nil whatever the driver answered.
CommitResult_Nil(w, c, ok) ==
    IF ~InTransaction(c) THEN ErrCommitWithoutTransaction ELSE Nil

\* Mutant: Commit() does not test InTransaction().
CommitResult_NoCheck(w, c, ok) ==
    IF IsRoot(c) THEN CommitError(w, c.tx, ok) ELSE Nil

\* Commit(): the world after it and the error it returns.
Commit(w, c, f, ok) ==
    IF ~InTransaction(c) THEN w
    ELSE IF IsRoot(c) THEN GormCommit(w, c.tx, f, ok)
    ELSE w

CommitResult(w, c, ok) ==
    IF ~InTransaction(c) THEN ErrCommitWithoutTransaction
    ELSE IF IsRoot(c) THEN CommitError(w, c.tx, ok)
    ELSE Nil

----------------------------------------------------------------------------
(* Frames.  A frame is one call of Transaction(ctx, bizFn, mode):           *)
(*   mode, fn   the declared mode and the function literal of bizFn         *)
(*   caller     the frame whose bizFn made the call, 0 for main             *)
(*   ctxIn      the ctx argument of Transaction                             *)
(*   path       the branch of the mode's function the call took:            *)
(*              "join", "owner", "plain", "savepoint", "refused", or        *)
(*              "default" for the default branch of Transaction's switch    *)
(*   ctx, tx    the arguments handed to bizFn                               *)
(*   own        the carrier txCtx the frame commits or rolls back, 0 if none*)
(*   pc         where bizFn is: "skipped" (never invoked), "start", "run",  *)
(*              "unwind" (a call it made panicked), "done"                  *)
(*   ret        how bizFn ended: "none", nil, an error, or "panic"          *)
(*   result     how Transaction ended: "running", nil, an error, or "panic" *)
(*   last       the outcome of the last Transaction call bizFn made         *)
(*   recovered  whether bizFn recovered a panic of a call it made           *)
(*   amb        the physical transaction that was open on ctxIn when the    *)
(*              call was made, 0 if none (kept for the properties only)     *)
(*   nargs      the number of propagations the call was given (kept for the *)
(*              properties only)                                            *)
(*   pend       the rows that were pending in the ambient transaction when  *)
(*              the call was made (kept for the properties only)            *)
(* pc ends as "done" (bizFn returned), "panicked" (bizFn panicked) or       *)
(* "unwound" (a panic of a call it made went through it).                   *)

AmbientTx(ctx) ==
    IF IsCarrier(ctx) /\ IsOpen(World, heap[ctx].tx) THEN heap[ctx].tx.phys ELSE 0

AmbientPending(ctx) ==
    IF AmbientTx(ctx) # 0 THEN txs[AmbientTx(ctx)].pending ELSE <<>>

Invoked(mode, fn, caller, ctxIn, path, ctx, tx, own) ==
    [mode |-> mode, fn |-> fn, caller |-> caller, ctxIn |-> ctxIn, path |-> path,
     ctx |-> ctx, tx |-> tx, own |-> own, pc |-> "start", ret |-> "none",
     result |-> "running", last |-> "none", recovered |-> FALSE,
     amb |-> AmbientTx(ctxIn), nargs |-> 1,
     pend |-> AmbientPending(ctxIn)]

NotInvoked(mode, fn, caller, ctxIn, path, own, result) ==
    [mode |-> mode, fn |-> fn, caller |-> caller, ctxIn |-> ctxIn, path |-> path,
     ctx |-> Background, tx |-> NilDB, own |-> own, pc |-> "skipped", ret |-> "none",
     result |-> result, last |-> "none", recovered |-> FALSE,
     amb |-> AmbientTx(ctxIn), nargs |-> 1,
     pend |-> AmbientPending(ctxIn)]

\* fmt.Sprintf("sp%p", bizFn): the name is the code address of bizFn
SavePointName(fn) == fn

\* Mutant: Nested does not look at the flag of the handle.
DisableNestedTransaction_Ignored == FALSE

\* db.DisableNestedTransaction: the flag of the gorm.Config the handles of
\* the DBFactory were opened with (false in the handles createDB opens)
DisableNestedTransaction == env.disableNested

(* The part of each mode's function that runs before bizFn.  Each yields     *)
(* [frame, heap, w]: the frame record, the carriers and the world when bizFn *)
(* is entered, or when Transaction returns without entering it.              *)

\* Mutant: the join branch hands bizFn the pool handle instead of the handle
\* of the ambient transaction.
Join_Pool(mode, fn, f, caller, ctx) ==
    [frame |-> Invoked(mode, fn, caller, ctx, "join", Len(heap) + 1, getPureDB(ctx), 0),
     heap |-> Append(heap, Session(ctx)),
     w |-> World]

\* bizFn(txCtx.Session(), txCtx.tx): the branch of a live ambient transaction
Join(mode, fn, f, caller, ctx) ==
    [frame |-> Invoked(mode, fn, caller, ctx, "join", Len(heap) + 1, heap[ctx].tx, 0),
     heap |-> Append(heap, Session(ctx)),
     w |-> World]

\* bizFn(ctx, db) with db := m.getPureDB(ctx)
Plain(mode, fn, f, caller, ctxIn, ctx) ==
    [frame |-> Invoked(mode, fn, caller, ctxIn, "plain", ctx, getPureDB(ctx), 0),
     heap |-> heap,
     w |-> World]

Refused(mode, fn, f, caller, ctx, err) ==
    [frame |-> NotInvoked(mode, fn, caller, ctx, "refused", 0, err),
     heap |-> heap,
     w |-> World]

\* Mutant: bizFn is called without looking at TxError().
Opened_IgnoresTxError(mode, fn, f, caller, ctx, k, hp, ok) ==
    [frame |-> Invoked(mode, fn, caller, ctx, "owner", k, hp[k].tx, k),
     heap |-> hp,
     w |-> GormBegin(World, f, ok)]

\* the frame opens a transaction: carrier k of heap hp holds the handle of
\* db.Begin(); bizFn runs unless TxError() is set
Opened(mode, fn, f, caller, ctx, k, hp, ok) ==
    IF TxError(hp[k]) = Nil
    THEN [frame |-> Invoked(mode, fn, caller, ctx, "owner", k, hp[k].tx, k),
          heap |-> hp,
          w |-> GormBegin(World, f, ok)]
    ELSE [frame |-> NotInvoked(mode, fn, caller, ctx, "owner", k, TxError(hp[k])),
          heap |-> hp,
          w |-> Rollback(GormBegin(World, f, ok), hp[k], f)]

withRequiredPropagation(mode, fn, f, caller, ctx, ok) ==
    IF AmbientLive(ctx)
    THEN Join(mode, fn, f, caller, ctx)
    ELSE IF ~IsCarrier(ctx)
    THEN Opened(mode, fn, f, caller, ctx, Len(heap) + 1,
                Append(heap, [ctx |-> ctx, tx |-> BeginHandle(World, ok), parent |-> 0]), ok)
    ELSE Opened(mode, fn, f, caller, ctx, ctx,
                [heap EXCEPT ![ctx].tx = BeginHandle(World, ok)], ok)

\* Mutant: RequiresNew joins a live ambient transaction as Required does.
withRequiresNewPropagation_Joins(mode, fn, f, caller, ctx, ok) ==
    IF AmbientLive(ctx)
    THEN Join(mode, fn, f, caller, ctx)
    ELSE Opened(mode, fn, f, caller, ctx, Len(heap) + 1,
                Append(heap, [ctx |-> ctx, tx |-> BeginHandle(World, ok), parent |-> 0]), ok)

\* Mutant: RequiresNew calls db.Begin() a second time and drops the handle.
withRequiresNewPropagation_BeginsTwice(mode, fn, f, caller, ctx, ok) ==
    LET st == Opened(mode, fn, f, caller, ctx, Len(heap) + 1,
                     Append(heap, [ctx |-> ctx, tx |-> BeginHandle(World, ok), parent |-> 0]), ok)
    IN [st EXCEPT !.w = GormBegin(@, f, ok)]

\* Mutant: the carrier RequiresNew makes records the carrier it was called
\* with as its parent.
withRequiresNewPropagation_Parent(mode, fn, f, caller, ctx, ok) ==
    Opened(mode, fn, f, caller, ctx, Len(heap) + 1,
           Append(heap, [ctx |-> ctx, tx |-> BeginHandle(World, ok), parent |-> ctx]), ok)

withRequiresNewPropagation(mode, fn, f, caller, ctx, ok) ==
    Opened(mode, fn, f, caller, ctx, Len(heap) + 1,
           Append(heap, [ctx |-> ctx, tx |-> BeginHandle(World, ok), parent |-> 0]), ok)

\* Mutant: Supports opens a transaction when there is none, as Required does.
withSupportsPropagation_AsRequired(mode, fn, f, caller, ctx, ok) ==
    withRequiredPropagation(mode, fn, f, caller, ctx, ok)

withSupportsPropagation(mode, fn, f, caller, ctx, ok) ==
    IF AmbientLive(ctx)
    THEN Join(mode, fn, f, caller, ctx)
    ELSE Plain(mode, fn, f, caller, ctx, ctx)

\* Mutant: Mandatory runs bizFn without transaction instead of refusing.
withMandatoryPropagation_AsSupports(mode, fn, f, caller, ctx, ok) ==
    IF AmbientLive(ctx)
    THEN Join(mode, fn, f, caller, ctx)
    ELSE Plain(mode, fn, f, caller, ctx, ctx)

withMandatoryPropagation(mode, fn, f, caller, ctx, ok) ==
    IF AmbientLive(ctx)
    THEN Join(mode, fn, f, caller, ctx)
    ELSE Refused(mode, fn, f, caller, ctx, ErrMandatoryPropWithoutTransaction)

\* Mutant: NotSupported hands bizFn the handle m.GetDB(ctx) gives, which is
\* the ambient transaction when there is one.
withNotSupportedPropagation_GetDB(mode, fn, f, caller, ctx, ok) ==
    LET pureCtx == IF IsCarrier(ctx) THEN Ctx(heap[ctx]) ELSE ctx
    IN [frame |-> Invoked(mode, fn, caller, ctx, "plain", pureCtx,
                          IF IsCarrier(ctx) THEN heap[ctx].tx ELSE getPureDB(ctx), 0),
        heap |-> heap,
        w |-> World]

withNotSupportedPropagation(mode, fn, f, caller, ctx, ok) ==
    LET pureCtx == IF IsCarrier(ctx) THEN Ctx(heap[ctx]) ELSE ctx
    IN Plain(mode, fn, f, caller, ctx, pureCtx)

\* Mutant: Never does not look for an ambient transaction.
withNeverPropagation_NoCheck(mode, fn, f, caller, ctx, ok) ==
    Plain(mode, fn, f, caller, ctx, ctx)

withNeverPropagation(mode, fn, f, caller, ctx, ok) ==
    IF AmbientLive(ctx)
    THEN Refused(mode, fn, f, caller, ctx, ErrNeverPropInTransaction)
    ELSE Plain(mode, fn, f, caller, ctx, ctx)

\* Mutant: without ambient transaction Nested runs bizFn on the pool handle.
withNestedPropagation_Plain(mode, fn, f, caller, ctx, ok) ==
    IF AmbientLive(ctx)
    THEN LET h == TxDB(heap[ctx])
         IN [frame |-> Invoked(mode, fn, caller, ctx, "savepoint", Len(heap) + 1, h, 0),
             heap |-> Append(heap, Session(ctx)),
             w |-> GormSavePoint(World, h, f, SavePointName(fn))]
    ELSE Plain(mode, fn, f, caller, ctx, ctx)

withNestedPropagation(mode, fn, f, caller, ctx, ok) ==
    IF AmbientLive(ctx)
    THEN IF DisableNestedTransaction
         THEN Join(mode, fn, f, caller, ctx)
         ELSE LET h == TxDB(heap[ctx])
                  w1 == GormSavePoint(World, h, f, SavePointName(fn))
              IN IF IsOpen(World, h)
                 THEN [frame |-> Invoked(mode, fn, caller, ctx, "savepoint",
                                         Len(heap) + 1, h, 0),
                       heap |-> Append(heap, Session(ctx)),
                       w |-> w1]
                 ELSE [frame |-> NotInvoked(mode, fn, caller, ctx, "savepoint", 0, ErrTxDone),
                       heap |-> heap,
                       w |-> GormRollbackTo(w1, h, f, SavePointName(fn))]
    ELSE withRequiredPropagation(mode, fn, f, caller, ctx, ok)

\* Mutant: the last propagation given decides, not the first.
Propagation_Last(propagations) ==
    IF Len(propagations) > 0 THEN propagations[Len(propagations)] ELSE defaultPropagation

\* Transaction: propagation is the default, or the first propagation given
Propagation(propagations) ==
    IF Len(propagations) > 0 THEN propagations[1] ELSE defaultPropagation

\* Transaction, default branch of the switch: panic("not supported
\* propagation"); bizFn is not invoked and the call unwinds
UnknownPropagation(mode, fn, f, caller, ctx) ==
    [frame |-> NotInvoked(mode, fn, caller, ctx, "default", 0, Panic),
     heap |-> heap,
     w |-> World]

\* Mutant: the switch treats a value it does not know as the default mode.
Transaction_DefaultRequired(propagations, fn, f, caller, ctx, ok) ==
    LET mode == Propagation(propagations)
    IN
    CASE mode = PropagationSupports -> withSupportsPropagation(mode, fn, f, caller, ctx, ok)
      [] mode = PropagationMandatory -> withMandatoryPropagation(mode, fn, f, caller, ctx, ok)
      [] mode = PropagationRequiresNew -> withRequiresNewPropagation(mode, fn, f, caller, ctx, ok)
      [] mode = PropagationNotSupported -> withNotSupportedPropagation(mode, fn, f, caller, ctx, ok)
      [] mode = PropagationNested -> withNestedPropagation(mode, fn, f, caller, ctx, ok)
      [] mode = PropagationNever -> withNeverPropagation(mode, fn, f, caller, ctx, ok)
      [] OTHER -> withRequiredPropagation(mode, fn, f, caller, ctx, ok)

\* Transaction: the switch on propagation
Transaction(propagations, fn, f, caller, ctx, ok) ==
    LET mode == Propagation(propagations)
    IN
    CASE mode = PropagationRequired -> withRequiredPropagation(mode, fn, f, caller, ctx, ok)
      [] mode = PropagationSupports -> withSupportsPropagation(mode, fn, f, caller, ctx, ok)
      [] mode = PropagationMandatory -> withMandatoryPropagation(mode, fn, f, caller, ctx, ok)
      [] mode = PropagationRequiresNew -> withRequiresNewPropagation(mode, fn, f, caller, ctx, ok)
      [] mode = PropagationNotSupported -> withNotSupportedPropagation(mode, fn, f, caller, ctx, ok)
      [] mode = PropagationNested -> withNestedPropagation(mode, fn, f, caller, ctx, ok)
      [] mode = PropagationNever -> withNeverPropagation(mode, fn, f, caller, ctx, ok)
      [] OTHER -> UnknownPropagation(mode, fn, f, caller, ctx)

----------------------------------------------------------------------------
(* The part of each mode's function that runs once bizFn has ended with r   *)
(* (nil, an error, or "panic" when it unwinds): the commit, and the deferred *)
(* function with its test panicked || err != nil.  Yields [w, result].       *)

\* Mutant: the deferred function tests panicked alone, so a returned error
\* neither commits nor rolls back.
OwnerExit_PanicOnly(f, r, ok) ==
    LET c == heap[frames[f].own]
        err == CommitResult(World, c, ok)
        w1 == Commit(World, c, f, ok)
    IN IF r = Panic
       THEN [w |-> Rollback(World, c, f), result |-> r]
       ELSE IF r # Nil
       THEN [w |-> World, result |-> r]
       ELSE [w |-> IF err # Nil THEN Rollback(w1, c, f) ELSE w1, result |-> err]

\* Mutant: the deferred function tests err != nil alone, so a panic leaves
\* the transaction open.
OwnerExit_ErrorOnly(f, r, ok) ==
    LET c == heap[frames[f].own]
        err == CommitResult(World, c, ok)
        w1 == Commit(World, c, f, ok)
    IN IF r = Panic
       THEN [w |-> World, result |-> r]
       ELSE IF r # Nil
       THEN [w |-> Rollback(World, c, f), result |-> r]
       ELSE [w |-> IF err # Nil THEN Rollback(w1, c, f) ELSE w1, result |-> err]

\* Mutant: there is no deferred function; the transaction is committed when
\* bizFn returns nil and left as it is otherwise.
OwnerExit_NoDefer(f, r, ok) ==
    LET c == heap[frames[f].own]
    IN IF r = Panic \/ r # Nil
       THEN [w |-> World, result |-> r]
       ELSE [w |-> Commit(World, c, f, ok), result |-> CommitResult(World, c, ok)]

\* withRequiredPropagation (else branch) and withRequiresNewPropagation
OwnerExit(f, r, ok) ==
    LET c == heap[frames[f].own]
        err == CommitResult(World, c, ok)
        w1 == Commit(World, c, f, ok)
    IN IF r = Panic \/ r # Nil
       THEN [w |-> Rollback(World, c, f), result |-> r]
       ELSE [w |-> IF err # Nil THEN Rollback(w1, c, f) ELSE w1, result |-> err]

\* Mutant: after the rollback to the savepoint the error of bizFn is dropped.
SavePointExit_Swallow(f, r) ==
    IF r = Panic \/ r # Nil
    THEN [w |-> GormRollbackTo(World, frames[f].tx, f, SavePointName(frames[f].fn)),
          result |-> IF r = Panic THEN r ELSE Nil]
    ELSE [w |-> World, result |-> r]

\* Mutant: the deferred function of Nested tests err != nil alone, so a panic
\* leaves the rows written under the savepoint.
SavePointExit_ErrorOnly(f, r) ==
    IF r # Panic /\ r # Nil
    THEN [w |-> GormRollbackTo(World, frames[f].tx, f, SavePointName(frames[f].fn)),
          result |-> r]
    ELSE [w |-> World, result |-> r]

\* Mutant: the deferred function of Nested rolls back to the savepoint
\* whatever bizFn returned.
SavePointExit_Always(f, r) ==
    [w |-> GormRollbackTo(World, frames[f].tx, f, SavePointName(frames[f].fn)),
     result |-> r]

\* withNestedPropagation on a live ambient transaction
SavePointExit(f, r) ==
    IF r = Panic \/ r # Nil
    THEN [w |-> GormRollbackTo(World, frames[f].tx, f, SavePointName(frames[f].fn)),
          result |-> r]
    ELSE [w |-> World, result |-> r]

\* Mutant: a frame that joined rolls the transaction back itself when bizFn
\* fails instead of leaving that to the frame that began it.
PassExit_Rollback(f, r) ==
    IF r # Nil /\ frames[f].path = "join"
    THEN [w |-> GormRollback(World, frames[f].tx, f), result |-> r]
    ELSE [w |-> World, result |-> r]

\* the branches that hand bizFn's outcome to the caller untouched
PassExit(f, r) == [w |-> World, result |-> r]

Exit(f, r, ok) ==
    CASE frames[f].path = "owner" -> OwnerExit(f, r, ok)
      [] frames[f].path = "savepoint" -> SavePointExit(f, r)
      [] OTHER -> PassExit(f, r)

----------------------------------------------------------------------------
(* The connection cache: dbCache with its map dbConns (source -> key ->     *)
(* handle) and its embedded sync.RWMutex, called by goroutines.  cache is   *)
(* [dbConns, writer, readers]: writer is the goroutine that holds Lock, 0   *)
(* if none; readers are the goroutines that hold RLock.  A handle a         *)
(* createFunc call opened is named by the number of that call.              *)

Procs == 1..MaxProcs

Keys == 1..MaxKeys

\* CacheSource() of the two creators
Sources == {"config_db", "simple_db"}

\* the nil gorm.DB pointer
NoConn == 0

\* the error of a createFunc call that failed
CreateErr == "createFunc failed"

\* a map with m[k] = v
Put(m, k, v) == [x \in DOMAIN m \cup {k} |-> IF x = k THEN v ELSE m[x]]

\* var cache = dbCache{dbConns: make(...)}
NewCache == [dbConns |-> [x \in {} |-> 0], writer |-> 0, readers |-> {}]

Idle(calls) ==
    [pc |-> "idle", op |-> "none", source |-> "none", key |-> 0,
     conn |-> NoConn, err |-> Nil, made |-> FALSE, calls |-> calls]

\* the number of cache calls the goroutines of set ps have made
RECURSIVE Calls(_)
Calls(ps) ==
    IF ps = {} THEN 0
    ELSE LET p == CHOOSE q \in ps : TRUE IN procs[p].calls + Calls(ps \ {p})

\* conns, exist := d.dbConns[source]; conn, exist := conns[key]
Exists(c, source, key) ==
    source \in DOMAIN c.dbConns /\ key \in DOMAIN c.dbConns[source]

\* Mutant: Lock() does not wait for the goroutine that holds the mutex.
CanLock_NoMutex(p) == TRUE

\* sync.RWMutex: Lock() returns when no goroutine holds the mutex
CanLock(p) == cache.writer = 0 /\ cache.readers = {}

\* sync.RWMutex: RLock() returns when no goroutine holds Lock
CanRLock(p) == cache.writer = 0

\* a goroutine calls cache.GetOrCreate(source, key, createFunc)
CallGetOrCreate(p, source, key) ==
    /\ procs[p].pc = "idle"
    /\ Calls(Procs) < MaxCalls
    /\ procs' = [procs EXCEPT ![p] = [Idle(@.calls + 1) EXCEPT
                     !.pc = "lock", !.op = "GetOrCreate", !.source = source, !.key = key]]
    /\ UNCHANGED <<cache, created, engine, outer>>

\* GetOrCreate: d.Lock()
Lock(p) ==
    /\ procs[p].pc = "lock"
    /\ CanLock(p)
    /\ cache' = [cache EXCEPT !.writer = p]
    /\ procs' = [procs EXCEPT ![p].pc = "lookup"]
    /\ UNCHANGED <<created, engine, outer>>

\* GetOrCreate: the map of the source is made if it is missing, then the key
\* is looked up in it
Lookup(p) ==
    /\ procs[p].pc = "lookup"
    /\ LET source == procs[p].source
           key == procs[p].key
           c == IF source \in DOMAIN cache.dbConns
                THEN cache
                ELSE [cache EXCEPT !.dbConns = Put(@, source, [x \in {} |-> 0])]
       IN /\ cache' = c
          /\ procs' = IF key \in DOMAIN c.dbConns[source]
                       THEN [procs EXCEPT ![p].conn = c.dbConns[source][key],
                                          ![p].pc = "unlock"]
                       ELSE [procs EXCEPT ![p].pc = "create"]
    /\ UNCHANGED <<created, engine, outer>>

\* Mutant: what createFunc returned is stored whether or not it failed.
Create_StoresAlways(p, ok) ==
    /\ procs[p].pc = "create"
    /\ LET source == procs[p].source
           key == procs[p].key
           n == Cardinality(created) + 1
           conn == IF ok THEN n ELSE NoConn
           err == IF ok THEN Nil ELSE CreateErr
       IN /\ created' = created \cup
                {[n |-> n, source |-> source, key |-> key, conn |-> conn, err |-> err]}
          /\ cache' = [cache EXCEPT !.dbConns =
                           Put(@, source, Put(cache.dbConns[source], key, conn))]
          /\ procs' = [procs EXCEPT ![p].conn = conn, ![p].err = err,
                                     ![p].made = TRUE, ![p].pc = "unlock"]
    /\ UNCHANGED <<engine, outer>>

\* GetOrCreate: conn, err = createFunc(); the handle is stored when err is nil
Create(p, ok) ==
    /\ procs[p].pc = "create"
    /\ LET source == procs[p].source
           key == procs[p].key
           n == Cardinality(created) + 1
       IN IF ok
          THEN /\ created' = created \cup
                     {[n |-> n, source |-> source, key |-> key, conn |-> n, err |-> Nil]}
               /\ cache' = [cache EXCEPT !.dbConns =
                                Put(@, source, Put(cache.dbConns[source], key, n))]
               /\ procs' = [procs EXCEPT ![p].conn = n, ![p].made = TRUE,
                                          ![p].pc = "unlock"]
          ELSE /\ created' = created \cup
                     {[n |-> n, source |-> source, key |-> key,
                       conn |-> NoConn, err |-> CreateErr]}
               /\ cache' = cache
               /\ procs' = [procs EXCEPT ![p].conn = NoConn, ![p].err = CreateErr,
                                          ![p].made = TRUE, ![p].pc = "unlock"]
    /\ UNCHANGED <<engine, outer>>

\* Mutant: the panic of createFunc ends the call without the deferred
\* d.Unlock().
CreatePanic_KeepsLock(p) ==
    /\ procs[p].pc = "create"
    /\ created' = created \cup
          {[n |-> Cardinality(created) + 1, source |-> procs[p].source,
            key |-> procs[p].key, conn |-> NoConn, err |-> Panic]}
    /\ procs' = [procs EXCEPT ![p] = Idle(@.calls)]
    /\ UNCHANGED <<cache, engine, outer>>

\* GetOrCreate: createFunc panics (createDB does, in PatchDefaultConfig, for
\* a config without database name); nothing is assigned, and the call
\* unwinds through the deferred d.Unlock()
CreatePanic(p) ==
    /\ procs[p].pc = "create"
    /\ created' = created \cup
          {[n |-> Cardinality(created) + 1, source |-> procs[p].source,
            key |-> procs[p].key, conn |-> NoConn, err |-> Panic]}
    /\ procs' = [procs EXCEPT ![p].conn = NoConn, ![p].err = Panic,
                               ![p].made = TRUE, ![p].pc = "unlock"]
    /\ UNCHANGED <<cache, engine, outer>>

\* GetOrCreate: return conn, err, and the deferred d.Unlock()
Unlock(p) ==
    /\ procs[p].pc = "unlock"
    /\ cache' = [cache EXCEPT !.writer = IF @ = p THEN 0 ELSE @]
    /\ procs' = [procs EXCEPT ![p] = Idle(@.calls)]
    /\ UNCHANGED <<created, engine, outer>>

\* a goroutine calls cache.Get(source, key)
CallGet(p, source, key) ==
    /\ procs[p].pc = "idle"
    /\ Calls(Procs) < MaxCalls
    /\ procs' = [procs EXCEPT ![p] = [Idle(@.calls + 1) EXCEPT
                     !.pc = "rlock", !.op = "Get", !.source = source, !.key = key]]
    /\ UNCHANGED <<cache, created, engine, outer>>

\* Get: d.RLock()
RLock(p) ==
    /\ procs[p].pc = "rlock"
    /\ CanRLock(p)
    /\ cache' = [cache EXCEPT !.readers = @ \cup {p}]
    /\ procs' = [procs EXCEPT ![p].pc = "read"]
    /\ UNCHANGED <<created, engine, outer>>

\* Get: the lookup of source and key, nil when one of them is missing
Get(p) ==
    /\ procs[p].pc = "read"
    /\ procs' = [procs EXCEPT
                    ![p].conn = IF Exists(cache, procs[p].source, procs[p].key)
                                THEN cache.dbConns[procs[p].source][procs[p].key]
                                ELSE NoConn,
                    ![p].pc = "runlock"]
    /\ UNCHANGED <<cache, created, engine, outer>>

\* Get: return conn, and the deferred d.RUnlock()
RUnlock(p) ==
    /\ procs[p].pc = "runlock"
    /\ cache' = [cache EXCEPT !.readers = @ \ {p}]
    /\ procs' = [procs EXCEPT ![p] = Idle(@.calls)]
    /\ UNCHANGED <<created, engine, outer>>

\* a handle that no createFunc call of the run has made
OtherConn == MaxCalls + 1

\* a goroutine calls cache.Set(source, key, db)
CallSet(p, source, key, conn) ==
    /\ procs[p].pc = "idle"
    /\ Calls(Procs) < MaxCalls
    /\ procs' = [procs EXCEPT ![p] = [Idle(@.calls + 1) EXCEPT
                     !.pc = "setlock", !.op = "Set", !.source = source, !.key = key,
                     !.conn = conn]]
    /\ UNCHANGED <<cache, created, engine, outer>>

\* Set: d.Lock()
SetLock(p) ==
    /\ procs[p].pc = "setlock"
    /\ CanLock(p)
    /\ cache' = [cache EXCEPT !.writer = p]
    /\ procs' = [procs EXCEPT ![p].pc = "store"]
    /\ UNCHANGED <<created, engine, outer>>

\* Set: the map of the source is made if it is missing, then conns[key] = db
SetStore(p) ==
    /\ procs[p].pc = "store"
    /\ LET source == procs[p].source
           conns0 == IF source \in DOMAIN cache.dbConns
                     THEN cache.dbConns[source]
                     ELSE [x \in {} |-> 0]
       IN cache' = [cache EXCEPT !.dbConns =
                        Put(@, source, Put(conns0, procs[p].key, procs[p].conn))]
    /\ procs' = [procs EXCEPT ![p].pc = "unlock"]
    /\ UNCHANGED <<created, engine, outer>>

----------------------------------------------------------------------------
(* The state machine. *)

Fns == 1..MaxFns

Outcomes == IF env.faulty THEN BOOLEAN ELSE {TRUE}

Top == stack[Len(stack)]

IsError(r) == r \notin {"none", "running", Nil, Panic}

\* the frames after the call made by `caller` has ended with `result`
Delivered(fs, caller, result) ==
    IF caller = 0 THEN fs
    ELSE [fs EXCEPT ![caller].last = result,
                    ![caller].pc = IF result = Panic THEN "unwind" ELSE "run"]

Start ==
    /\ heap = <<>>
    /\ txs = <<>>
    /\ db = {}
    /\ frames = <<>>
    /\ stack = <<>>
    /\ log = <<>>
    /\ top = "idle"
    /\ cache = NewCache
    /\ procs = [p \in Procs |-> Idle(0)]
    /\ created = {}
    /\ direct = <<>>
    /\ configs = <<>>

\* every mode, a reliable driver
Init ==
    /\ Start
    /\ env = [faulty |-> FALSE, modes |-> Propagations, frames |-> MaxFrames,
              variadic |-> FALSE, disableNested |-> FALSE]

\* every mode, a driver that may fail BEGIN and COMMIT
InitFaulty ==
    /\ Start
    /\ env = [faulty |-> TRUE, modes |-> Propagations, frames |-> MaxFrames,
              variadic |-> FALSE, disableNested |-> FALSE]

\* callers that give Transaction no propagation, one, or several
InitVariadic ==
    /\ Start
    /\ env = [faulty |-> FALSE, modes |-> Propagations, frames |-> MaxVariadicFrames,
              variadic |-> TRUE,
              disableNested |-> FALSE]

\* callers that use Required and Nested only, a reliable driver
InitNested ==
    /\ Start
    /\ env = [faulty |-> FALSE,
              modes |-> {PropagationRequired, PropagationNested},
              frames |-> MaxNestedFrames, variadic |-> FALSE, disableNested |-> FALSE]

\* callers that use the modes that begin or suspend a transaction
InitOwners ==
    /\ Start
    /\ env = [faulty |-> FALSE,
              modes |-> {PropagationRequired, PropagationRequiresNew,
                         PropagationNotSupported, PropagationNested},
              frames |-> MaxFrames, variadic |-> FALSE, disableNested |-> FALSE]

\* callers that use Required and Nested only, on handles opened with
\* DisableNestedTransaction
InitDisabled ==
    /\ Start
    /\ env = [faulty |-> FALSE,
              modes |-> {PropagationRequired, PropagationNested},
              frames |-> MaxDisabledFrames, variadic |-> FALSE, disableNested |-> TRUE]

\* callers that use the seven modes and a value that is none of them
InitUnknown ==
    /\ Start
    /\ env = [faulty |-> FALSE, modes |-> Propagations \cup {PropagationUnknown},
              frames |-> MaxUnknownFrames, variadic |-> FALSE, disableNested |-> FALSE]

\* every mode, a reliable driver, a main that calls again later
InitLater ==
    /\ Start
    /\ env = [faulty |-> FALSE, modes |-> Propagations, frames |-> MaxLaterFrames,
              variadic |-> FALSE, disableNested |-> FALSE]

\* the propagations a caller gives to Transaction
PropagationLists ==
    IF env.variadic
    THEN UNION { [1..n -> env.modes] : n \in 0..MaxModes }
    ELSE { <<mode>> : mode \in env.modes }

\* main (with an idle top), or the bizFn on top of the stack, can call
CanCall ==
    /\ Len(frames) < env.frames
    /\ \/ stack = <<>> /\ top = "idle"
       \/ stack # <<>> /\ frames[Top].pc = "run"

\* main, or the bizFn on top of the stack, calls
\* Transaction(ctx, fn, propagations...) with the ctx it holds; the call runs
\* up to the entry of fn, or to its return when fn is not invoked.
Call(propagations, fn) ==
    /\ CanCall
    /\ \E ok \in Outcomes :
         LET caller == IF stack = <<>> THEN 0 ELSE Top
             ctx == IF stack = <<>> THEN Background ELSE frames[Top].ctx
             f == Len(frames) + 1
             st == Transaction(propagations, fn, f, caller, ctx, ok)
             entered == st.frame.pc # "skipped"
             frame == [st.frame EXCEPT !.nargs = Len(propagations)]
         IN /\ heap' = st.heap
            /\ txs' = st.w.txs
            /\ db' = st.w.db
            /\ log' = st.w.log
            /\ frames' = IF entered
                         THEN Append(frames, frame)
                         ELSE Delivered(Append(frames, frame), caller, frame.result)
            /\ stack' = IF entered THEN Append(stack, f) ELSE stack
            /\ top' = IF caller # 0 THEN top
                      ELSE IF entered THEN "running" ELSE st.frame.result
    /\ UNCHANGED <<env, conns, outer>>

\* Once its Transaction call has ended, main calls
\* Transaction(ctx, fn, propagations...) again, ctx being a carrier that a
\* bizFn of the first call was given and has handed out.
CallLater(propagations, fn, k) ==
    /\ stack = <<>>
    /\ top \notin {"idle", "running"}
    /\ Len(frames) < env.frames
    /\ k \in { frames[g].ctx : g \in 1..Len(frames) } \ {Background}
    /\ \E ok \in Outcomes :
         LET f == Len(frames) + 1
             st == Transaction(propagations, fn, f, 0, k, ok)
             entered == st.frame.pc # "skipped"
             frame == [st.frame EXCEPT !.nargs = Len(propagations)]
         IN /\ heap' = st.heap
            /\ txs' = st.w.txs
            /\ db' = st.w.db
            /\ log' = st.w.log
            /\ frames' = Append(frames, frame)
            /\ stack' = IF entered THEN Append(stack, f) ELSE stack
            /\ top' = IF entered THEN "running" ELSE st.frame.result
    /\ UNCHANGED <<env, conns, outer>>

\* bizFn starts with tx.Create(row) on the handle it was given; the row is
\* named after the frame.
BizCreate ==
    /\ stack # <<>>
    /\ frames[Top].pc = "start"
    /\ LET w == GormCreate(World, frames[Top].tx, Top, Top)
       IN /\ txs' = w.txs
          /\ db' = w.db
          /\ log' = w.log
    /\ frames' = [frames EXCEPT ![Top].pc = "run"]
    /\ UNCHANGED <<heap, stack, top, env, conns, outer>>

\* bizFn ends with r; the frame's function finishes and its caller goes on
Finish(r, pc, ok) ==
    LET f == Top
        x == Exit(f, r, ok)
        caller == frames[f].caller
    IN /\ txs' = x.w.txs
       /\ db' = x.w.db
       /\ log' = x.w.log
       /\ frames' = Delivered([frames EXCEPT ![f].pc = pc, ![f].ret = r,
                                             ![f].result = x.result],
                              caller, x.result)
       /\ stack' = SubSeq(stack, 1, Len(stack) - 1)
       /\ top' = IF caller = 0 THEN x.result ELSE top
       /\ UNCHANGED <<heap, env, conns, outer>>

\* bizFn returns nil, its own error, or the error of the last call it made
BizReturn(e) ==
    /\ stack # <<>>
    /\ frames[Top].pc = "run"
    /\ e = Nil \/ e = mockErr \/ (e = frames[Top].last /\ IsError(e))
    /\ \E ok \in Outcomes : Finish(e, "done", ok)

\* bizFn panics
BizPanic ==
    /\ stack # <<>>
    /\ frames[Top].pc = "run"
    /\ Finish(Panic, "panicked", TRUE)

\* a call made by bizFn panicked and bizFn has no recover: it unwinds
BizUnwind ==
    /\ stack # <<>>
    /\ frames[Top].pc = "unwind"
    /\ Finish(Panic, "unwound", TRUE)

\* a call made by bizFn panicked and a deferred handler of bizFn recovers
BizRecover ==
    /\ stack # <<>>
    /\ frames[Top].pc = "unwind"
    /\ frames' = [frames EXCEPT ![Top].pc = "run", ![Top].recovered = TRUE]
    /\ UNCHANGED <<heap, txs, db, stack, log, top, env, conns, outer>>

Errors ==
    { Nil, mockErr, ErrNeverPropInTransaction, ErrMandatoryPropWithoutTransaction,
      ErrCommitWithoutTransaction, BeginErr, CommitErr, ErrTxDone }

Next ==
    \/ \E propagations \in PropagationLists :
         \E fn \in (IF Propagation(propagations) = PropagationNested THEN Fns ELSE {1}) :
            Call(propagations, fn)
    \/ BizCreate
    \/ \E e \in Errors : BizReturn(e)
    \/ BizPanic
    \/ BizUnwind
    \/ BizRecover

Spec == Init /\ [][Next]_vars

SpecFaulty == InitFaulty /\ [][Next]_vars

SpecNested == InitNested /\ [][Next]_vars

SpecVariadic == InitVariadic /\ [][Next]_vars

SpecOwners == InitOwners /\ [][Next]_vars

SpecDisabled == InitDisabled /\ [][Next]_vars

SpecUnknown == InitUnknown /\ [][Next]_vars

NextLater ==
    \/ Next
    \/ \E propagations \in PropagationLists :
         \E fn \in (IF Propagation(propagations) = PropagationNested THEN Fns ELSE {1}) :
            \E k \in 1..Len(heap) : CallLater(propagations, fn, k)

SpecLater == InitLater /\ [][NextLater]_vars

\* goroutines that call the connection cache concurrently; createFunc may fail
InitCache ==
    /\ Start
    /\ env = [faulty |-> TRUE, modes |-> {}, frames |-> 0, variadic |-> FALSE, disableNested |-> FALSE]

NextCache ==
    \/ \E p \in Procs : \E source \in Sources : \E key \in Keys :
         CallGetOrCreate(p, source, key)
    \/ \E p \in Procs : Lock(p)
    \/ \E p \in Procs : Lookup(p)
    \/ \E p \in Procs : \E ok \in BOOLEAN : Create(p, ok)
    \/ \E p \in Procs : Unlock(p)
    \/ \E p \in Procs : \E source \in Sources : \E key \in Keys :
         CallGet(p, source, key)
    \/ \E p \in Procs : RLock(p)
    \/ \E p \in Procs : Get(p)
    \/ \E p \in Procs : RUnlock(p)

SpecCache == InitCache /\ [][NextCache]_vars

\* what goroutine p does once it has called GetOrCreate with a createFunc
\* that may also panic
Step(p) ==
    \/ Lock(p)
    \/ Lookup(p)
    \/ \E ok \in BOOLEAN : Create(p, ok)
    \/ CreatePanic(p)
    \/ Unlock(p)

\* goroutines that call GetOrCreate
NextCachePanic ==
    \/ \E p \in Procs : \E source \in Sources : \E key \in Keys :
         CallGetOrCreate(p, source, key)
    \/ \E p \in Procs : Step(p)

\* the Go scheduler runs every goroutine that can run, and createFunc ends
SpecCachePanic ==
    InitCache /\ [][NextCachePanic]_vars /\ \A p \in Procs : WF_vars(Step(p))

\* the three methods of dbCache, Set included
NextCacheSet ==
    \/ NextCache
    \/ \E p \in Procs : \E source \in Sources : \E key \in Keys :
         CallSet(p, source, key, OtherConn)
    \/ \E p \in Procs : SetLock(p)
    \/ \E p \in Procs : SetStore(p)

SpecCacheSet == InitCache /\ [][NextCacheSet]_vars

----------------------------------------------------------------------------
(* The methods of a carrier and of the manager, called one at a time by     *)
(* main.  The carriers are the carrier of a frame that called db.Begin(),   *)
(* with the handle of a transaction or of a failed Begin, and the carrier   *)
(* its Session() gives; the zero value of the type, which only code of the  *)
(* package can write, stands for a carrier that is not in a transaction,    *)
(* the case Commit and Rollback test for.                                   *)

\* the handles db.Begin() can give
BegunHandles == {TxHandle(0), TxHandle(1)}

\* the world after db.Begin() and, when it succeeded, one tx.Create
Begun(h) ==
    LET empty == [txs |-> <<>>, db |-> {}, log |-> <<>>]
    IN IF h = TxHandle(0)
       THEN GormBegin(empty, 0, FALSE)
       ELSE GormCreate(GormBegin(empty, 0, TRUE), h, 0, 1)

\* carrier 1 is the zero value, carrier 2 the root, carrier 3 is Session() of 2
InitCarrier ==
    /\ \E h \in BegunHandles :
          /\ heap = << [ctx |-> Background, tx |-> NilDB, parent |-> 0],
                       [ctx |-> Background, tx |-> h, parent |-> 0],
                       [ctx |-> Background, tx |-> h, parent |-> 2] >>
          /\ txs = Begun(h).txs
          /\ db = Begun(h).db
          /\ log = Begun(h).log
    /\ frames = <<>>
    /\ stack = <<>>
    /\ top = "idle"
    /\ cache = NewCache
    /\ procs = [p \in Procs |-> Idle(0)]
    /\ created = {}
    /\ direct = <<>>
    /\ configs = <<>>
    /\ env = [faulty |-> TRUE, modes |-> {}, frames |-> 0, variadic |-> FALSE,
              disableNested |-> FALSE]

\* the record of a call main made on carrier or context `on`: what it
\* returned (an error, or a handle in db), the part of the log it wrote, and
\* whether the transaction of the carrier was open when it was made
DirectCall(op, on, result, h, w) ==
    [op |-> op, on |-> on, result |-> result, db |-> h,
     from |-> Len(log), to |-> Len(w.log),
     open |-> IsCarrier(on) /\ IsOpen(World, heap[on].tx)]

\* main calls c.Commit() on carrier k
CarrierCommit(k, ok) ==
    /\ Len(direct) < MaxDirect
    /\ LET w == Commit(World, heap[k], 0, ok)
       IN /\ direct' = Append(direct, DirectCall("Commit", k,
                                 CommitResult(World, heap[k], ok), NilDB, w))
          /\ txs' = w.txs
          /\ db' = w.db
          /\ log' = w.log
    /\ UNCHANGED <<heap, frames, stack, top, env, configs, conns>>

\* main calls c.Rollback() on carrier k
CarrierRollback(k) ==
    /\ Len(direct) < MaxDirect
    /\ LET w == Rollback(World, heap[k], 0)
       IN /\ direct' = Append(direct, DirectCall("Rollback", k, Nil, NilDB, w))
          /\ txs' = w.txs
          /\ db' = w.db
          /\ log' = w.log
    /\ UNCHANGED <<heap, frames, stack, top, env, configs, conns>>

\* main calls m.GetDB(ctx); a carrier of a failed Begin is never handed to a
\* bizFn, so no caller of GetDB has one
ManagerGetDB(ctx) ==
    /\ Len(direct) < MaxDirect
    /\ IsCarrier(ctx) => TxError(heap[ctx]) = Nil
    /\ direct' = Append(direct, DirectCall("GetDB", ctx, Nil, GetDB(ctx), World))
    /\ UNCHANGED <<heap, txs, db, log, frames, stack, top, env, configs, conns>>

NextCarrier ==
    \/ \E k \in 1..Len(heap) : \E ok \in BOOLEAN : CarrierCommit(k, ok)
    \/ \E k \in 1..Len(heap) : CarrierRollback(k)
    \/ \E ctx \in 0..Len(heap) : ManagerGetDB(ctx)

SpecCarrier == InitCarrier /\ [][NextCarrier]_vars

----------------------------------------------------------------------------
(* The factories over ConnConfig objects.  A config is a record of the      *)
(* fields that the cache key and PatchDefaultConfig read: Host, Port,       *)
(* Database, and MaxIdleConns for the defaulted fields that are not part    *)
(* of the key.  The key host#port#database is the triple of its parts.      *)

Hosts == {"db1"}

Ports == {0, 5432}

Databases == {"", "app"}

IdleConns == {0, 5}

ConnConfigs ==
    [Host : Hosts, Port : Ports, Database : Databases, MaxIdleConns : IdleConns]

DefaultConfig == [Port |-> 5432, MaxIdleConns |-> 5]

\* PatchDefaultConfig(config): the fields of the object it was given after
\* it has returned or panicked (the test of Database comes last)
PatchDefaultConfig(config) ==
    [config EXCEPT !.Port = IF @ = 0 THEN DefaultConfig.Port ELSE @,
                   !.MaxIdleConns = IF @ = 0 THEN DefaultConfig.MaxIdleConns ELSE @]

\* PatchDefaultConfig: panic("database must be set")
DatabaseUnset(config) == config.Database = ""

\* configDBCreator.CacheKey(), read from the config as it is at the call
CacheKey(config) == <<config.Host, config.Port, config.Database>>

\* main calls NewConfigDBFactory(c): NewCachedDBFactory computes source and
\* key, then cache.GetOrCreate(source, key, creator.CreateDB) runs under the
\* lock; CreateDB is createDB(c.config), which patches the caller's config
\* and opens the handle.  The result is a factory over the handle, the error
\* of gorm.Open, or the panic of PatchDefaultConfig.
NewConfigDBFactory(c, ok) ==
    /\ Len(direct) < MaxFactoryCalls
    /\ cache.writer = 0 /\ cache.readers = {}
    /\ LET source == "config_db"
           key == CacheKey(configs[c])
           conns0 == IF source \in DOMAIN cache.dbConns
                     THEN cache.dbConns[source]
                     ELSE [x \in {} |-> 0]
           exist == key \in DOMAIN conns0
           n == Cardinality(created) + 1
           err == IF exist THEN Nil
                  ELSE IF DatabaseUnset(configs[c]) THEN Panic
                  ELSE IF ok THEN Nil ELSE CreateErr
           conn == IF exist THEN conns0[key] ELSE IF err = Nil THEN n ELSE NoConn
       IN /\ configs' = IF exist THEN configs
                        ELSE [configs EXCEPT ![c] = PatchDefaultConfig(@)]
          /\ cache' = [cache EXCEPT !.dbConns =
                           Put(@, source, IF ~exist /\ err = Nil
                                          THEN Put(conns0, key, n) ELSE conns0)]
          /\ created' = IF exist THEN created
                        ELSE created \cup {[n |-> n, source |-> source, key |-> key,
                                            conn |-> conn, err |-> err]}
          /\ direct' = Append(direct, [op |-> "NewConfigDBFactory", on |-> c,
                                       result |-> err, db |-> conn, key |-> key,
                                       made |-> ~exist])
    /\ UNCHANGED <<engine, procs>>

\* main has its ConnConfig objects; nothing has been cached
InitConfig ==
    /\ heap = <<>>
    /\ txs = <<>>
    /\ db = {}
    /\ frames = <<>>
    /\ stack = <<>>
    /\ log = <<>>
    /\ top = "idle"
    /\ cache = NewCache
    /\ procs = [p \in Procs |-> Idle(0)]
    /\ created = {}
    /\ direct = <<>>
    /\ configs \in [1..MaxConfigs -> ConnConfigs]
    /\ env = [faulty |-> TRUE, modes |-> {}, frames |-> 0, variadic |-> FALSE,
              disableNested |-> FALSE]

NextConfig == \E c \in 1..Len(configs) : \E ok \in BOOLEAN : NewConfigDBFactory(c, ok)

SpecConfig == InitConfig /\ [][NextConfig]_vars

----------------------------------------------------------------------------
(* Vocabulary of the properties. *)

FrameIds == 1..Len(frames)

\* the frames enclosing f, from its caller up to the call made by main
RECURSIVE Ancestors(_)
Ancestors(f) ==
    IF frames[f].caller = 0 THEN {}
    ELSE {frames[f].caller} \cup Ancestors(frames[f].caller)

\* main's Transaction call has returned or unwound
Finished == top \notin {"idle", "running"}

Returned(f) == frames[f].result # "running"

\* frame f made call op on a handle, and the driver carried it out
Issued(f, op) ==
    \E i \in 1..Len(log) : log[i].by = f /\ log[i].op = op /\ log[i].res = "ok"

\* frame f made call op on a handle, whatever came of it
Called(f, op) == \E i \in 1..Len(log) : log[i].by = f /\ log[i].op = op

TxCommands == {"BEGIN", "COMMIT", "ROLLBACK", "SAVEPOINT", "ROLLBACK TO"}

\* the row frame f creates is visible to other connections
Visible(f) == f \in db

\* the frame that began physical transaction p
OwnerOf(p) == CHOOSE f \in FrameIds : /\ frames[f].own # 0
                                      /\ heap[frames[f].own].tx = TxHandle(p)
                                      /\ Called(f, "BEGIN")

\* the rows created through handles of physical transaction p
TxRows(p) ==
    { log[i].arg : i \in { j \in 1..Len(log) : log[j].op = "CREATE" /\ log[j].tx = p } }

\* f and every frame enclosing it declare Required: with main's context being
\* context.Background(), f belongs to a chain of Required frames whose
\* outermost frame starts with no ambient transaction
RequiredChain(f) ==
    \A g \in Ancestors(f) \cup {f} : frames[g].mode = PropagationRequired

----------------------------------------------------------------------------
(* C1: in a chain of nested Required frames that starts without ambient     *)
(* transaction, when the bizFn of a frame returns an error and every        *)
(* enclosing frame returns that error, then once the outermost call has     *)
(* returned the root frame has issued ROLLBACK and no COMMIT, no row        *)
(* written by a frame of the chain is visible, and the call returned the    *)
(* error.                                                                   *)

ErrorUp(f) ==
    /\ IsError(frames[f].ret)
    /\ RequiredChain(f)
    /\ \A g \in Ancestors(f) : frames[g].ret = frames[f].ret

C1_RequiredErrorRollsBackAll ==
    \A f \in FrameIds :
        (Finished /\ ErrorUp(f)) =>
            /\ top = frames[f].ret
            /\ Issued(1, "ROLLBACK")
            /\ ~Called(1, "COMMIT")
            /\ \A g \in FrameIds : RequiredChain(g) => ~Visible(g)

\* an error returned two frames below the root and handed up to main, every
\* frame of the chain having created its row
C1_Witness ==
    \E f \in FrameIds :
        /\ Finished /\ ErrorUp(f)
        /\ Cardinality(Ancestors(f)) = 2
        /\ \A g \in Ancestors(f) \cup {f} : Called(g, "CREATE")

----------------------------------------------------------------------------
(* C2: in such a chain, when the bizFn of a frame panics and no frame       *)
(* recovers, the panic leaves the outermost call as a panic (it is not      *)
(* turned into an error), and by then the root frame has issued ROLLBACK    *)
(* and no COMMIT, and no row written by a frame of the chain is visible.    *)

PanicUp(f) ==
    /\ frames[f].pc = "panicked"
    /\ RequiredChain(f)
    /\ \A g \in Ancestors(f) : frames[g].pc = "unwound"

----------------------------------------------------------------------------
(* C3: when a Required frame that joined a live transaction returns an      *)
(* error, and its caller and every frame above it return nil, the frame     *)
(* that began the transaction has issued COMMIT and no ROLLBACK, and the    *)
(* rows of the frames of the chain, the failed one included, are visible.   *)

\* the transaction frame f works in, and the frames enclosing f (f included)
\* that work in it too
TxOf(f) == frames[f].tx.phys

Chain(f) == { g \in Ancestors(f) \cup {f} : frames[g].tx = frames[f].tx }

JoinedAndDiscarded(f) ==
    /\ frames[f].mode = PropagationRequired
    /\ frames[f].path = "join"
    /\ \A g \in Ancestors(f) : frames[g].ret = Nil

C3_DiscardedErrorCommits ==
    \A f \in FrameIds :
        (JoinedAndDiscarded(f) /\ IsError(frames[f].result)) =>
            /\ Issued(OwnerOf(TxOf(f)), "COMMIT")
            /\ ~Called(OwnerOf(TxOf(f)), "ROLLBACK")
            /\ \A g \in Chain(f) : Visible(g)

\* the error of a frame two levels below the root was discarded
C3_Witness ==
    \E f \in FrameIds :
        /\ JoinedAndDiscarded(f) /\ IsError(frames[f].result)
        /\ RequiredChain(f)
        /\ Cardinality(Chain(f)) = 3
        /\ Finished

----------------------------------------------------------------------------
(* C4: when a Required frame that joined a live transaction panics, its     *)
(* caller's bizFn recovers the panic and returns nil, and so does every     *)
(* frame above, the joining frame has made no transaction call on the       *)
(* driver, the frame that began the transaction has issued COMMIT, and the  *)
(* rows of the chain, the panicking frame's included, are visible.          *)

C4_RecoveredPanicCommits ==
    \A f \in FrameIds :
        (JoinedAndDiscarded(f) /\ frames[f].result = Panic) =>
            /\ frames[frames[f].caller].recovered
            /\ \A op \in TxCommands : ~Called(f, op)
            /\ Issued(OwnerOf(TxOf(f)), "COMMIT")
            /\ ~Called(OwnerOf(TxOf(f)), "ROLLBACK")
            /\ \A g \in Chain(f) : Visible(g)

\* the panic of a joined frame was recovered by its caller, which is itself a
\* joined frame
C4_Witness ==
    \E f \in FrameIds :
        /\ JoinedAndDiscarded(f) /\ frames[f].pc = "panicked"
        /\ RequiredChain(f)
        /\ Cardinality(Chain(f)) = 3
        /\ Finished

----------------------------------------------------------------------------
(* C5: a Mandatory frame called without live ambient transaction returns    *)
(* ErrMandatoryPropWithoutTransaction, its bizFn is not invoked, it makes   *)
(* no call on any handle, and its row never becomes visible.                *)

LogOf(f) == { i \in 1..Len(log) : log[i].by = f }

C5_MandatoryWithoutTransaction ==
    \A f \in FrameIds :
        (frames[f].mode = PropagationMandatory /\ frames[f].amb = 0) =>
            /\ frames[f].result = ErrMandatoryPropWithoutTransaction
            /\ frames[f].pc = "skipped"
            /\ LogOf(f) = {}
            /\ ~Visible(f)

\* main called Transaction with Mandatory and got the error back
C5_Witness ==
    /\ Finished
    /\ frames[1].mode = PropagationMandatory
    /\ top = ErrMandatoryPropWithoutTransaction

----------------------------------------------------------------------------
(* C6: a Never frame called with a live ambient transaction returns         *)
(* ErrNeverPropInTransaction, its bizFn is not invoked and it makes no call *)
(* on any handle; when the enclosing frames hand that error up to the frame *)
(* that began the ambient transaction, that frame rolls it back and none of *)
(* its rows is visible.                                                     *)

\* the frames enclosing f up to the frame o that began the ambient transaction
UpTo(f, o) == { g \in Ancestors(f) : g = o \/ o \in Ancestors(g) }

C6_NeverInTransaction ==
    \A f \in FrameIds :
        (frames[f].mode = PropagationNever /\ frames[f].amb # 0) =>
            /\ frames[f].result = ErrNeverPropInTransaction
            /\ frames[f].pc = "skipped"
            /\ LogOf(f) = {}
            /\ LET o == OwnerOf(frames[f].amb)
               IN (\A g \in UpTo(f, o) : frames[g].ret = ErrNeverPropInTransaction) =>
                     /\ frames[o].result = ErrNeverPropInTransaction
                     /\ Issued(o, "ROLLBACK")
                     /\ ~Called(o, "COMMIT")
                     /\ TxRows(frames[f].amb) \cap db = {}

\* the Never frame was called from a frame joined to the root transaction and
\* its error came out of the root call
C6_Witness ==
    \E f \in FrameIds :
        /\ frames[f].mode = PropagationNever /\ frames[f].amb # 0
        /\ Cardinality(UpTo(f, OwnerOf(frames[f].amb))) = 2
        /\ \A g \in UpTo(f, OwnerOf(frames[f].amb)) : frames[g].ret = ErrNeverPropInTransaction
        /\ top = ErrNeverPropInTransaction

----------------------------------------------------------------------------
(* C7: a RequiresNew frame called from the bizFn of a frame that began its  *)
(* own transaction (Required without ambient, or RequiresNew) works in      *)
(* another transaction, and once both frames have returned: if the inner    *)
(* committed and the outer rolled back, the inner row is visible and the    *)
(* outer row is not; if the inner rolled back and the outer committed, the  *)
(* outer row is visible and the inner row is not.                           *)

InnerOfOwner(f) ==
    /\ frames[f].mode = PropagationRequiresNew
    /\ frames[f].caller # 0
    /\ frames[frames[f].caller].path = "owner"
    /\ frames[frames[f].caller].mode \in {PropagationRequired, PropagationRequiresNew}
    /\ Returned(f)
    /\ Returned(frames[f].caller)

C7_RequiresNewIndependent ==
    \A f \in FrameIds :
        InnerOfOwner(f) =>
            LET g == frames[f].caller
            IN /\ TxOf(f) # TxOf(g)
               /\ (frames[f].result = Nil /\ frames[g].result # Nil) =>
                      (Visible(f) /\ ~Visible(g))
               /\ (frames[f].result # Nil /\ frames[g].result = Nil) =>
                      (Visible(g) /\ ~Visible(f))

\* the inner frame committed inside a RequiresNew frame that rolled back
C7_Witness ==
    \E f \in FrameIds :
        /\ InnerOfOwner(f)
        /\ frames[frames[f].caller].mode = PropagationRequiresNew
        /\ frames[f].result = Nil
        /\ frames[frames[f].caller].result = mockErr
        /\ Issued(f, "COMMIT")
        /\ Issued(frames[f].caller, "ROLLBACK")

----------------------------------------------------------------------------
(* C8: Nested frames A and then B called from the bizFn of a Required frame *)
(* that began the transaction: when A returns an error that the outer bizFn *)
(* discards, B returns nil and the outer bizFn returns nil, the rows of the *)
(* outer frame and of B are visible and the row of A is not.                *)
(* The savepoint of a frame is named after its bizFn alone, so when A calls *)
(* a Nested frame with the same bizFn the inner SAVEPOINT replaces A's, and *)
(* A's ROLLBACK TO keeps the row A created: the property fails with four    *)
(* frames (checked under SpecNested).                                       *)

NestedSiblings(g, a, b) ==
    /\ frames[g].mode = PropagationRequired /\ frames[g].path = "owner"
    /\ frames[a].caller = g /\ frames[b].caller = g /\ a < b
    /\ frames[a].mode = PropagationNested /\ frames[b].mode = PropagationNested
    /\ IsError(frames[a].result)
    /\ frames[b].result = Nil
    /\ frames[g].ret = Nil

C8_NestedPartialRollback ==
    \A g \in FrameIds : \A a \in FrameIds : \A b \in FrameIds :
        NestedSiblings(g, a, b) =>
            (Visible(g) /\ Visible(b) /\ ~Visible(a))

----------------------------------------------------------------------------
(* C9: a NotSupported or Supports frame called without live ambient         *)
(* transaction never calls BEGIN, COMMIT or ROLLBACK; its bizFn gets a      *)
(* plain pool handle, so its row is visible as soon as it is created and    *)
(* stays visible, also when bizFn returns an error.                         *)

----------------------------------------------------------------------------
(* C10: a NotSupported frame called inside a live transaction calls no      *)
(* BEGIN, COMMIT, ROLLBACK or SAVEPOINT and creates its row outside that    *)
(* transaction: the row is visible once the frame has returned, with nil or *)
(* with an error, and stays visible when the enclosing transaction is       *)
(* rolled back, while no row of that transaction is visible then.           *)

C10_NotSupportedInTransaction ==
    \A f \in FrameIds :
        (frames[f].mode = PropagationNotSupported /\ frames[f].amb # 0) =>
            /\ \A op \in {"BEGIN", "COMMIT", "ROLLBACK", "SAVEPOINT"} : ~Called(f, op)
            /\ \A i \in LogOf(f) : log[i].tx # frames[f].amb
            /\ (Returned(f) => Visible(f))
            /\ (txs[frames[f].amb].state = "rolledback" =>
                    (Visible(f) /\ TxRows(frames[f].amb) \cap db = {}))

\* the NotSupported frame returned an error, and the enclosing transaction, in
\* which the root and a joined frame had created rows, was rolled back
C10_Witness ==
    \E f \in FrameIds :
        /\ frames[f].mode = PropagationNotSupported /\ frames[f].amb # 0
        /\ frames[f].result = mockErr
        /\ txs[frames[f].amb].state = "rolledback"
        /\ Cardinality(TxRows(frames[f].amb)) = 2

----------------------------------------------------------------------------
(* C11: a Supports or Mandatory frame called with a live ambient transaction *)
(* runs bizFn on the handle of that transaction with a session carrier (a   *)
(* carrier that is not root) as ctx, makes no transaction call on the       *)
(* driver and returns what bizFn returned.  Its row is visible only if the  *)
(* frame that began the transaction has committed, and, when no Nested      *)
(* frame between the two has rolled back to its savepoint, it is visible as *)
(* soon as that frame has committed; when the error of the frame reaches    *)
(* the frame that began the transaction, the rows of both are dropped.      *)

JoinsAmbient(f) ==
    /\ frames[f].mode \in {PropagationSupports, PropagationMandatory}
    /\ frames[f].amb # 0

ThroughSession(f) ==
    /\ frames[f].path = "join"
    /\ frames[f].tx = TxHandle(frames[f].amb)
    /\ IsCarrier(frames[f].ctx)
    /\ ~IsRoot(heap[frames[f].ctx])
    /\ heap[frames[f].ctx].parent = frames[f].ctxIn
    /\ TxDB(heap[frames[f].ctx]) = frames[f].tx
    /\ \A op \in TxCommands : ~Called(f, op)
    /\ (frames[f].pc = "done" => frames[f].result = frames[f].ret)
    /\ (frames[f].pc \in {"panicked", "unwound"} => frames[f].result = Panic)

\* no Nested frame between f and the frame o that began the transaction has
\* called ROLLBACK TO
NoPartialRollback(f, o) ==
    \A g \in UpTo(f, o) : frames[g].path = "savepoint" => ~Called(g, "ROLLBACK TO")

C11_JoinedSupportsMandatory ==
    \A f \in FrameIds :
        JoinsAmbient(f) =>
            LET o == OwnerOf(frames[f].amb)
            IN /\ ThroughSession(f)
               /\ Visible(f) => Issued(o, "COMMIT")
               /\ (Issued(o, "COMMIT") /\ NoPartialRollback(f, o)) => Visible(f)
               /\ (IsError(frames[f].ret)
                     /\ \A g \in UpTo(f, o) : frames[g].ret = frames[f].ret) =>
                        /\ Issued(o, "ROLLBACK")
                        /\ ~Visible(f) /\ ~Visible(o)

\* the statement without the exception for Nested frames: the row is visible
\* if and only if the frame that began the transaction has committed
C11_VisibleIffRootCommits ==
    \A f \in FrameIds :
        JoinsAmbient(f) =>
            (Visible(f) <=> Issued(OwnerOf(frames[f].amb), "COMMIT"))

\* a Mandatory frame called by the frame that began the transaction returned
\* an error that went up to main, both frames having created their rows
C11_Witness ==
    \E f \in FrameIds :
        /\ frames[f].mode = PropagationMandatory /\ frames[f].amb # 0
        /\ frames[f].caller = OwnerOf(frames[f].amb)
        /\ frames[f].ret = mockErr
        /\ top = mockErr
        /\ Called(f, "CREATE") /\ Called(frames[f].caller, "CREATE")

----------------------------------------------------------------------------
(* C12: for every source and key, whatever the interleaving of the          *)
(* goroutines that call GetOrCreate, at most one createFunc call has        *)
(* succeeded, and every GetOrCreate that is about to return a nil error     *)
(* returns the handle that call opened.                                     *)

\* the createFunc calls for source and key that succeeded
Successes(source, key) ==
    { c \in created : c.source = source /\ c.key = key /\ c.err = Nil }

\* goroutine p is at the return of GetOrCreate
Returning(p) == procs[p].op = "GetOrCreate" /\ procs[p].pc = "unlock"

C12_OneCreationPerKey ==
    /\ \A source \in Sources : \A key \in Keys :
          Cardinality(Successes(source, key)) <= 1
    /\ \A p \in Procs :
          (Returning(p) /\ procs[p].err = Nil) =>
              /\ procs[p].conn # NoConn
              /\ \E c \in Successes(procs[p].source, procs[p].key) :
                    c.conn = procs[p].conn

\* a goroutine returns the handle another goroutine created, while a third
\* call for the same source and key waits for the lock
C12_Witness ==
    \E p \in Procs : \E q \in Procs \ {p} :
        /\ Returning(p) /\ ~procs[p].made /\ procs[p].conn # NoConn
        /\ procs[q].pc = "lock"
        /\ procs[q].source = procs[p].source /\ procs[q].key = procs[p].key
        /\ Calls(Procs) = 3

----------------------------------------------------------------------------
(* C13: when createFunc fails in GetOrCreate(source, key, createFunc), the  *)
(* call returns a nil handle with the error of createFunc and the cache     *)
(* holds no entry for source and key (an entry exists only where a          *)
(* createFunc call succeeded); a GetOrCreate that finds no entry calls      *)
(* createFunc, so a call that returns without having called it found an     *)
(* entry.                                                                   *)

C13_FailedCreationNotCached ==
    /\ \A source \in Sources : \A key \in Keys :
          Exists(cache, source, key) =>
              \E c \in Successes(source, key) : c.conn = cache.dbConns[source][key]
    /\ \A p \in Procs :
          /\ (Returning(p) /\ procs[p].err # Nil) =>
                /\ procs[p].made
                /\ procs[p].err = CreateErr
                /\ procs[p].conn = NoConn
                /\ ~Exists(cache, procs[p].source, procs[p].key)
          /\ (Returning(p) /\ ~procs[p].made) =>
                /\ Exists(cache, procs[p].source, procs[p].key)
                /\ procs[p].conn = cache.dbConns[procs[p].source][procs[p].key]
          /\ procs[p].pc = "create" => ~Exists(cache, procs[p].source, procs[p].key)

\* createFunc failed for a source and key, and a later GetOrCreate for them
\* called createFunc again, which succeeded
C13_Witness ==
    \E c1 \in created : \E c2 \in created :
        /\ c1.source = c2.source /\ c1.key = c2.key
        /\ c1.err = CreateErr /\ c2.err = Nil
        /\ c1.n < c2.n
        /\ \E p \in Procs : Returning(p) /\ procs[p].conn = c2.conn

----------------------------------------------------------------------------
(* C14: for every physical transaction, among the carriers handed to the    *)
(* frames that are running on it exactly one is root, and it is the carrier *)
(* of the frame that called BEGIN; every COMMIT and ROLLBACK call on the    *)
(* transaction is made by that frame; a frame that joined (Required,        *)
(* Supports, Mandatory) or runs under a savepoint (Nested) calls neither.   *)

PhysIds == 1..Len(txs)

\* the frames whose bizFn is running with a handle of transaction p
Active(p) == { f \in Rows(stack) : frames[f].tx = TxHandle(p) }

\* the root carriers among the carriers of those frames
RootCarriers(p) == { k \in { frames[f].ctx : f \in Active(p) } : IsRoot(heap[k]) }

C14_SingleRoot ==
    /\ \A p \in PhysIds :
          Active(p) # {} => RootCarriers(p) = {frames[OwnerOf(p)].own}
    /\ \A i \in 1..Len(log) :
          (log[i].op \in {"COMMIT", "ROLLBACK"} /\ log[i].tx \in PhysIds) =>
              log[i].by = OwnerOf(log[i].tx)
    /\ \A f \in FrameIds :
          frames[f].path \in {"join", "savepoint"} =>
              /\ ~Called(f, "COMMIT") /\ ~Called(f, "ROLLBACK")
              /\ ~IsRoot(heap[frames[f].ctx])

\* three frames run on one transaction, the root frame, a joined frame and a
\* Nested frame under a savepoint
C14_Witness ==
    \E p \in PhysIds :
        /\ Cardinality(Active(p)) = 3
        /\ \E f \in Active(p) : frames[f].path = "join"
        /\ \E f \in Active(p) : frames[f].path = "savepoint"

----------------------------------------------------------------------------
(* C15: the commands that reach the driver for a transaction the engine has *)
(* begun are: BEGIN, once and first; then the rows of the bizFns with the   *)
(* SAVEPOINT and ROLLBACK TO of Nested frames; then, last, one COMMIT or    *)
(* one ROLLBACK, which has been sent when the frame that began the          *)
(* transaction has ended.  (A call on a handle whose transaction is done    *)
(* is answered with ErrTxDone by database/sql and sends no command.)        *)

\* the positions in log of the commands sent to the driver for transaction p
Sent(p) == { i \in 1..Len(log) : log[i].tx = p /\ log[i].res \in {"ok", "fail"} }

Terminal(i) == log[i].op \in {"COMMIT", "ROLLBACK"}

C15_CommandOrder ==
    \A p \in PhysIds :
        /\ \E i \in Sent(p) :
              /\ log[i].op = "BEGIN"
              /\ \A j \in Sent(p) : j >= i /\ (log[j].op = "BEGIN" => j = i)
        /\ \A i \in Sent(p) : Terminal(i) => \A j \in Sent(p) : j <= i
        /\ \A i \in Sent(p) :
              log[i].op \in {"BEGIN", "CREATE", "SAVEPOINT", "ROLLBACK TO", "COMMIT", "ROLLBACK"}
        /\ Returned(OwnerOf(p)) => \E i \in Sent(p) : Terminal(i)

\* a transaction with rows, a savepoint and a rollback to it has ended with a
\* COMMIT that the driver failed
C15_Witness ==
    \E p \in PhysIds :
        /\ \E i \in Sent(p) : log[i].op = "COMMIT" /\ log[i].res = "fail"
        /\ \E i \in Sent(p) : log[i].op = "ROLLBACK TO"
        /\ \E i \in Sent(p) : log[i].op = "CREATE"

----------------------------------------------------------------------------
(* C16: when a frame that began a transaction has ended, whether its bizFn  *)
(* returned nil, returned an error or panicked, that transaction is no      *)
(* longer open: it is committed, or rolled back, or its COMMIT was sent and *)
(* failed; once the call made by main has returned or unwound, no           *)
(* transaction is open.                                                     *)

\* the frames that began a transaction
Owners == { f \in FrameIds : frames[f].own # 0 /\ heap[frames[f].own].tx.phys # 0 }

Began(f) == heap[frames[f].own].tx.phys

C16_NoTransactionLeftOpen ==
    /\ \A f \in Owners :
          Returned(f) =>
              /\ txs[Began(f)].state \in {"committed", "rolledback", "aborted"}
              /\ txs[Began(f)].state = "aborted" =>
                    \E i \in Sent(Began(f)) : log[i].op = "COMMIT" /\ log[i].res = "fail"
              /\ frames[f].ret # Nil => txs[Began(f)].state = "rolledback"
    /\ Finished => \A p \in PhysIds : txs[p].state # "open"

\* three transactions have ended, one whose bizFn returned nil, one whose
\* bizFn returned an error and one whose bizFn panicked
C16_Witness ==
    /\ Finished
    /\ \E f \in Owners : frames[f].ret = Nil /\ txs[Began(f)].state = "committed"
    /\ \E f \in Owners : IsError(frames[f].ret) /\ txs[Began(f)].state = "rolledback"
    /\ \E f \in Owners : frames[f].pc = "panicked" /\ txs[Began(f)].state = "rolledback"

----------------------------------------------------------------------------
(* C17: in every mode and with or without ambient transaction, when bizFn   *)
(* has been invoked and has returned an error, Transaction returns that     *)
(* error; the frame that began a transaction has called ROLLBACK and a      *)
(* Nested frame under a savepoint has called ROLLBACK TO before, and no     *)
(* frame has called COMMIT.                                                 *)

BizFailed(f) == frames[f].pc = "done" /\ IsError(frames[f].ret)

C17_BizErrorReturned ==
    \A f \in FrameIds :
        BizFailed(f) =>
            /\ frames[f].result = frames[f].ret
            /\ ~Called(f, "COMMIT")
            /\ frames[f].path = "owner" => Issued(f, "ROLLBACK")
            /\ frames[f].path = "savepoint" => Called(f, "ROLLBACK TO")
            /\ (frames[f].caller = 0 => top = frames[f].ret)

\* an error went from a Nested frame under a savepoint through a joined
\* frame to the frame that began the transaction and to main
C17_Witness ==
    \E f \in FrameIds :
        /\ BizFailed(f) /\ frames[f].path = "savepoint"
        /\ BizFailed(frames[f].caller) /\ frames[frames[f].caller].path = "join"
        /\ BizFailed(1) /\ frames[1].path = "owner"
        /\ top = frames[f].ret

----------------------------------------------------------------------------
(* C18: when the bizFn of a frame that began its transaction (Required or   *)
(* Nested without ambient transaction, RequiresNew) returns nil and the     *)
(* driver fails the COMMIT, Transaction returns the error of the COMMIT.    *)
(* The deferred function then finds err set and calls Rollback on the same  *)
(* handle; the transaction being done, that call sends no ROLLBACK to the   *)
(* driver.                                                                  *)

\* frame f sent a COMMIT that the driver failed, at position i of log
CommitFailedAt(f, i) ==
    /\ log[i].by = f /\ log[i].op = "COMMIT" /\ log[i].res = "fail"
    /\ frames[f].path = "owner" /\ frames[f].ret = Nil

----------------------------------------------------------------------------
(* C19: wherever a Transaction call can be made, the call without           *)
(* propagation does what the call with Required does, and a call with two   *)
(* propagations does what the call with the first of them alone does: the    *)
(* same calls on the driver, the same carriers, the same arguments of bizFn *)
(* or the same result without bizFn, whether BEGIN succeeds or fails.  What *)
(* follows the entry of bizFn depends on these alone.                       *)

\* what Transaction(ctx, fn, propagations...) does up to the entry of bizFn
\* when it is called now and the driver answers ok
Entering(propagations, fn, ok) ==
    LET caller == IF stack = <<>> THEN 0 ELSE Top
        ctx == IF stack = <<>> THEN Background ELSE frames[Top].ctx
    IN Transaction(propagations, fn, Len(frames) + 1, caller, ctx, ok)

C19_DefaultAndFirstMode ==
    /\ CanCall =>
          \A fn \in Fns : \A ok \in BOOLEAN :
              /\ Entering(<<>>, fn, ok) = Entering(<<PropagationRequired>>, fn, ok)
              /\ \A m1 \in Propagations : \A m2 \in Propagations :
                    Entering(<<m1, m2>>, fn, ok) = Entering(<<m1>>, fn, ok)
    /\ \A f \in FrameIds :
          /\ frames[f].nargs = 0 =>
                /\ frames[f].mode = PropagationRequired
                /\ frames[f].path = (IF frames[f].amb = 0 THEN "owner" ELSE "join")
          /\ (frames[f].nargs = 0 /\ Returned(f) /\ frames[f].path = "owner") =>
                (Issued(f, "COMMIT") <=> frames[f].ret = Nil)

\* main called Transaction without propagation and its bizFn called it with
\* two propagations, Never first, which failed; main's call rolled back
C19_Witness ==
    /\ Len(frames) = 2
    /\ frames[1].nargs = 0 /\ frames[2].nargs = 2
    /\ frames[2].mode = PropagationNever
    /\ frames[2].result = ErrNeverPropInTransaction
    /\ top = ErrNeverPropInTransaction
    /\ Issued(1, "ROLLBACK")

----------------------------------------------------------------------------
(* C20: every RequiresNew frame calls BEGIN exactly once, with or without   *)
(* ambient transaction; the transaction handed to its bizFn is not the      *)
(* transaction of any enclosing frame, nor the ambient one; and every call  *)
(* the frame makes on a handle (rows, COMMIT, ROLLBACK) is on the           *)
(* transaction it began, none on a transaction of an enclosing frame.       *)

Begins(f) == { i \in LogOf(f) : log[i].op = "BEGIN" }

C20_RequiresNewAlwaysBegins ==
    \A f \in FrameIds :
        frames[f].mode = PropagationRequiresNew =>
            /\ Cardinality(Begins(f)) = 1
            /\ frames[f].path = "owner"
            /\ frames[f].tx = TxHandle(Began(f))
            /\ Began(f) # frames[f].amb
            /\ \A g \in Ancestors(f) : frames[g].tx # frames[f].tx
            /\ \A i \in LogOf(f) :
                  /\ log[i].tx = Began(f)
                  /\ log[i].op \in {"BEGIN", "CREATE", "COMMIT", "ROLLBACK"}
            /\ \A i \in Begins(f) : \A j \in LogOf(f) : i <= j

\* a RequiresNew frame called inside a RequiresNew frame called inside a
\* Required frame, all three with rows, the innermost rolled back, the others
\* committed
C20_Witness ==
    /\ Len(frames) = 3
    /\ frames[1].mode = PropagationRequired
    /\ frames[2].mode = PropagationRequiresNew /\ frames[2].caller = 1
    /\ frames[3].mode = PropagationRequiresNew /\ frames[3].caller = 2
    /\ Issued(3, "ROLLBACK") /\ Issued(2, "COMMIT") /\ Issued(1, "COMMIT")
    /\ db = {1, 2}

----------------------------------------------------------------------------
(* C21: the carrier a RequiresNew frame makes when it is called inside a    *)
(* live transaction holds the handle of the transaction the frame has just  *)
(* begun, which is not the ambient one, and it is the ctx handed to bizFn.  *)
(* The carrier it was called with is kept in the field ctx of the new       *)
(* carrier; the field parent is nil, so the new carrier is root and the     *)
(* frame commits or rolls back its transaction itself.                      *)

RequiresNewInside(f) ==
    /\ frames[f].mode = PropagationRequiresNew
    /\ frames[f].amb # 0

C21_RequiresNewCarrier ==
    \A f \in FrameIds :
        RequiresNewInside(f) =>
            LET c == heap[frames[f].own]
            IN /\ frames[f].ctx = frames[f].own
               /\ frames[f].own \notin { frames[g].own : g \in FrameIds \ {f} }
               /\ TxDB(c) = TxHandle(Began(f))
               /\ TxDB(c) = frames[f].tx
               /\ Began(f) # frames[f].amb
               /\ \A i \in Begins(f) : log[i].tx = Began(f) /\ log[i].res = "ok"
               /\ Ctx(c) = frames[f].ctxIn
               /\ IsCarrier(Ctx(c)) /\ heap[Ctx(c)].tx = TxHandle(frames[f].amb)
               /\ IsRoot(c)
               /\ (Returned(f) => \/ Issued(f, "COMMIT")
                                  \/ Issued(f, "ROLLBACK"))

\* the statement of the claim: the parent of the new carrier is the carrier
\* of the suspended transaction
C21_ParentIsOuterCarrier ==
    \A f \in FrameIds :
        RequiresNewInside(f) =>
            /\ heap[frames[f].own].parent = frames[f].ctxIn
            /\ TxDB(heap[frames[f].own]) = TxHandle(Began(f))

\* a RequiresNew frame called by a frame that joined the root transaction has
\* committed its row while the root transaction is still open
C21_Witness ==
    \E f \in FrameIds :
        /\ RequiresNewInside(f)
        /\ frames[frames[f].caller].path = "join"
        /\ Issued(f, "COMMIT") /\ Visible(f)
        /\ txs[frames[f].amb].state = "open"

----------------------------------------------------------------------------
(* C22: the ctx a NotSupported frame hands to its bizFn carries no live     *)
(* transaction, whatever the frames around it: GetDB on it gives a pool     *)
(* handle, and a frame called by that bizFn finds no ambient transaction, so *)
(* Required begins its own transaction, Mandatory is refused and Never      *)
(* runs.                                                                    *)
(* NotSupported hands on the field ctx of the carrier it was called with.   *)
(* The carrier of a RequiresNew frame keeps there the ctx of its own call,  *)
(* which is the carrier of the enclosing transaction when there is one: the *)
(* property fails for a NotSupported frame inside a RequiresNew frame       *)
(* inside a transaction.                                                    *)

\* the frames bizFn of f has called
Callees(f) == { g \in FrameIds : frames[g].caller = f }

C22_NotSupportedCarriesNoTransaction ==
    \A f \in FrameIds :
        (frames[f].mode = PropagationNotSupported /\ frames[f].pc # "skipped") =>
            /\ ~AmbientLive(frames[f].ctx)
            /\ GetDB(frames[f].ctx) = PoolDB
            /\ \A g \in Callees(f) :
                  /\ frames[g].amb = 0
                  /\ frames[g].mode = PropagationRequired =>
                        (frames[g].path = "owner" /\ Cardinality(Begins(g)) = 1)
                  /\ frames[g].mode = PropagationMandatory =>
                        frames[g].result = ErrMandatoryPropWithoutTransaction
                  /\ frames[g].mode = PropagationNever => frames[g].path = "plain"

----------------------------------------------------------------------------
(* C23: a Nested frame called with a live ambient transaction sends one     *)
(* SAVEPOINT, named after its bizFn, on the ambient transaction before      *)
(* bizFn runs.  When bizFn returns an error or panics, the frame sends one  *)
(* ROLLBACK TO with the same name once bizFn has ended, and the error or    *)
(* the panic goes on to the caller; when bizFn returns nil the frame sends  *)
(* no ROLLBACK TO.  The frame never calls BEGIN, COMMIT, ROLLBACK or        *)
(* RELEASE.                                                                 *)

NestedInside(f) == frames[f].mode = PropagationNested /\ frames[f].amb # 0

\* the positions in log of the calls made by f and by the frames inside f
LogWithin(f) == { i \in 1..Len(log) : log[i].by = f \/ f \in Ancestors(log[i].by) }

CallsOf(f, op) == { i \in LogOf(f) : log[i].op = op }

----------------------------------------------------------------------------
(* C24: the Nested frames that are running at one time under savepoints of  *)
(* one physical transaction have savepoint names that differ from one       *)
(* another, also when a Nested frame runs inside a Nested frame with the    *)
(* same bizFn.                                                              *)
(* The name is made from the code address of bizFn alone, so two such       *)
(* frames have one name: the property fails.                                *)

\* the frames that are running under a savepoint of transaction p
UnderSavePoint(p) ==
    { f \in Rows(stack) : frames[f].path = "savepoint" /\ frames[f].amb = p }

C24_SavePointNamesDistinct ==
    \A p \in PhysIds :
        \A f \in UnderSavePoint(p) : \A g \in UnderSavePoint(p) :
            f # g => SavePointName(frames[f].fn) # SavePointName(frames[g].fn)

----------------------------------------------------------------------------
(* C25: when a Nested frame that ran under a savepoint has failed, with an  *)
(* error or a panic, the rows pending in the ambient transaction once the   *)
(* frame has sent its ROLLBACK TO are the rows that were pending when the   *)
(* frame was called: the rows written by the frame and by the frames inside *)
(* it are dropped and no row written before is lost.                        *)
(* When a Nested frame inside the frame has the same bizFn, its SAVEPOINT   *)
(* has replaced the savepoint of the frame, and the ROLLBACK TO keeps the   *)
(* rows written between the two: the property fails.                        *)

\* Nested frame f has failed and no call has been made on a handle since
JustFailed(f) ==
    /\ NestedInside(f)
    /\ Returned(f) /\ frames[f].result # Nil
    /\ log[Len(log)].by = f

C25_FailedNestedRestores ==
    \A f \in FrameIds :
        JustFailed(f) => txs[frames[f].amb].pending = frames[f].pend

----------------------------------------------------------------------------
(* C26: the row written by a Nested frame that ran under a savepoint and    *)
(* returned nil is not visible to other connections while the frame that    *)
(* began the transaction is running, and it is visible only if that frame   *)
(* has committed; it is visible once that frame has committed, unless a     *)
(* Nested frame between the two has rolled back to its savepoint; and when  *)
(* that frame ends with an error or a panic, it rolls the transaction back  *)
(* and neither its row nor the row of the Nested frame is visible.          *)

SucceededNested(f) ==
    /\ NestedInside(f)
    /\ frames[f].result = Nil
    /\ Called(f, "CREATE")

C26_NestedCommitsWithRoot ==
    \A f \in FrameIds :
        SucceededNested(f) =>
            LET o == OwnerOf(frames[f].amb)
            IN /\ ~Returned(o) => ~Visible(f)
               /\ Visible(f) => Issued(o, "COMMIT")
               /\ (Issued(o, "COMMIT") /\ NoPartialRollback(f, o)) => Visible(f)
               /\ (Returned(o) /\ frames[o].result # Nil) =>
                     /\ Issued(o, "ROLLBACK")
                     /\ ~Visible(f) /\ ~Visible(o)
               /\ (Returned(o) /\ frames[o].result = Nil) => Issued(o, "COMMIT")

\* the statement without the exception for enclosing Nested frames: the row
\* is visible as soon as the frame that began the transaction has committed
C26_VisibleWhenRootCommits ==
    \A f \in FrameIds :
        SucceededNested(f) =>
            LET o == OwnerOf(frames[f].amb)
            IN /\ ~Returned(o) => ~Visible(f)
               /\ Issued(o, "COMMIT") => Visible(f)
               /\ Issued(o, "ROLLBACK") => ~Visible(f)

\* two Nested frames called by the root bizFn returned nil and then the root
\* bizFn panicked: no row is visible
C26_Witness ==
    \E f \in FrameIds : \E g \in FrameIds \ {f} :
        /\ SucceededNested(f) /\ SucceededNested(g)
        /\ frames[f].caller = 1 /\ frames[g].caller = 1
        /\ frames[1].pc = "panicked"
        /\ Issued(1, "ROLLBACK")
        /\ db = {}

----------------------------------------------------------------------------
(* C27: wherever a Transaction call can be made with a ctx that carries no  *)
(* live transaction, the call with Nested does what the call with Required  *)
(* does, whether BEGIN succeeds or fails: the same calls on the driver, the *)
(* same carriers, the same arguments of bizFn (what follows the entry of    *)
(* bizFn depends on these alone).  Such a Nested frame calls BEGIN once and *)
(* first, hands bizFn a root carrier with the handle of the new             *)
(* transaction, sends ROLLBACK when bizFn fails and COMMIT when it returns  *)
(* nil, and calls neither SAVEPOINT nor ROLLBACK TO.                        *)

\* the ctx of the Transaction call that can be made now
CtxNow == IF stack = <<>> THEN Background ELSE frames[Top].ctx

NestedAlone(f) == frames[f].mode = PropagationNested /\ frames[f].amb = 0

C27_NestedWithoutAmbient ==
    /\ (CanCall /\ ~AmbientLive(CtxNow)) =>
          \A fn \in Fns : \A ok \in BOOLEAN :
              Entering(<<PropagationNested>>, fn, ok) =
                 [Entering(<<PropagationRequired>>, fn, ok) EXCEPT
                     !.frame.mode = PropagationNested]
    /\ \A f \in FrameIds :
          NestedAlone(f) =>
              /\ frames[f].path = "owner"
              /\ Cardinality(Begins(f)) = 1
              /\ \A i \in Begins(f) : \A j \in LogWithin(f) : i <= j
              /\ CallsOf(f, "SAVEPOINT") = {} /\ CallsOf(f, "ROLLBACK TO") = {}
              /\ frames[f].ctx = frames[f].own
              /\ IsRoot(heap[frames[f].ctx])
              /\ frames[f].tx = TxHandle(Began(f))
              /\ Returned(f) =>
                    /\ frames[f].ret = Nil <=> Issued(f, "COMMIT")
                    /\ frames[f].ret # Nil <=> Issued(f, "ROLLBACK")
                    /\ frames[f].result # Nil => ~Visible(f)

\* a Nested frame called by the bizFn of a NotSupported frame, hence without
\* ambient transaction, has committed its row; another one, called by main,
\* has rolled back after an error
C27_Witness ==
    /\ Len(frames) > 1
    /\ NestedAlone(1) /\ frames[1].result = mockErr /\ Issued(1, "ROLLBACK")
    /\ \E f \in FrameIds :
          /\ NestedAlone(f) /\ frames[f].caller # 0
          /\ Issued(f, "COMMIT") /\ Visible(f)

----------------------------------------------------------------------------
(* C28: on handles opened with DisableNestedTransaction, wherever a         *)
(* Transaction call can be made with a ctx that carries a live transaction, *)
(* the call with Nested does what the call with Required does.  Such a      *)
(* Nested frame runs bizFn on the handle of the ambient transaction with a  *)
(* session carrier, calls no SAVEPOINT, no ROLLBACK TO and no other         *)
(* transaction command, and returns what bizFn returned; its row is visible *)
(* if and only if the frame that began the transaction has committed.       *)

C28_DisabledNestedJoins ==
    /\ (CanCall /\ AmbientLive(CtxNow)) =>
          \A fn \in Fns : \A ok \in BOOLEAN :
              Entering(<<PropagationNested>>, fn, ok) =
                 [Entering(<<PropagationRequired>>, fn, ok) EXCEPT
                     !.frame.mode = PropagationNested]
    /\ \A f \in FrameIds :
          NestedInside(f) =>
              /\ ThroughSession(f)
              /\ Called(f, "CREATE") =>
                    (Visible(f) <=> Issued(OwnerOf(frames[f].amb), "COMMIT"))
    /\ \A i \in 1..Len(log) : log[i].op \notin {"SAVEPOINT", "ROLLBACK TO"}

\* a Nested frame inside a Nested frame returned an error that its caller
\* discarded; the root has committed and the rows of all three are visible
C28_Witness ==
    \E f \in FrameIds :
        /\ NestedInside(f) /\ NestedInside(frames[f].caller)
        /\ frames[f].result = mockErr
        /\ frames[frames[f].caller].result = Nil
        /\ Issued(1, "COMMIT")
        /\ {1, frames[f].caller, f} \subseteq db

----------------------------------------------------------------------------
(* C29: a Transaction call with a mode that is none of the seven panics:    *)
(* bizFn is not invoked, the call makes no call on any handle and makes no  *)
(* carrier, the panic reaches the caller (main, or the bizFn that made the  *)
(* call, which unwinds unless it recovers), and the row of the frame is     *)
(* never written.                                                           *)

UnknownMode(f) == frames[f].mode \notin Propagations

C29_UnknownModePanics ==
    \A f \in FrameIds :
        UnknownMode(f) =>
            /\ frames[f].result = Panic
            /\ frames[f].pc = "skipped" /\ frames[f].ret = "none"
            /\ LogOf(f) = {}
            /\ frames[f].own = 0
            /\ f \notin Rows(stack)
            /\ ~Visible(f)
            /\ \A p \in PhysIds : f \notin Rows(txs[p].pending)
            /\ frames[f].caller = 0 => top = Panic
            /\ frames[f].caller # 0 =>
                  \/ frames[frames[f].caller].pc \in {"unwind", "unwound"}
                  \/ frames[frames[f].caller].recovered

\* the bizFn of a Required frame made the call and unwound; the transaction
\* was rolled back and the panic reached main
C29_Witness ==
    \E f \in FrameIds :
        /\ UnknownMode(f)
        /\ frames[f].caller = 1 /\ frames[1].mode = PropagationRequired
        /\ frames[1].pc = "unwound"
        /\ Issued(1, "ROLLBACK")
        /\ top = Panic

----------------------------------------------------------------------------
(* C30: once the frame that began a transaction has rolled it back,         *)
(* InTransaction is false on the carrier of that frame and on the sessions  *)
(* made from it, so a later Transaction call that is given such a carrier   *)
(* as ctx finds no ambient transaction: it does not join, Required begins a *)
(* transaction of its own, Mandatory is refused and Never runs.             *)
(* InTransaction tests that the ConnPool of the handle is a TxCommitter,    *)
(* and the handle keeps its sql.Tx after Rollback: the predicate stays true *)
(* and the later call joins the finished transaction.  The property fails.  *)

\* the carriers whose handle is on a transaction that was rolled back
RolledBackCarriers ==
    { k \in 1..Len(heap) : /\ heap[k].tx.kind = "tx" /\ heap[k].tx.phys # 0
                           /\ txs[heap[k].tx.phys].state = "rolledback" }

\* the call of f was given a carrier of a transaction that was not open
GivenFinished(f) == IsCarrier(frames[f].ctxIn) /\ frames[f].amb = 0

C30_RolledBackNotInTransaction ==
    /\ \A k \in RolledBackCarriers : ~InTransaction(heap[k])
    /\ \A f \in FrameIds :
          GivenFinished(f) =>
              /\ frames[f].path \notin {"join", "savepoint"}
              /\ frames[f].mode = PropagationRequired =>
                    (frames[f].path = "owner" /\ Cardinality(Begins(f)) = 1)
              /\ frames[f].mode = PropagationMandatory =>
                    frames[f].result = ErrMandatoryPropWithoutTransaction
              /\ frames[f].mode = PropagationNever => frames[f].path = "plain"

----------------------------------------------------------------------------
(* C31.  No Transaction call changes a field (ctx, tx, parent) of a carrier *)
(* that exists already, the carrier it is given as ctx included: a frame    *)
(* that joins hands bizFn a new carrier made by Session(), whose parent is  *)
(* the carrier it was given, and a frame that opens a transaction makes a   *)
(* new root carrier.  The one assignment to a field of an existing carrier, *)
(* txCtx.tx = db.Begin() in withRequiredPropagation, is under a test no     *)
(* carrier passes: it needs a carrier that is not InTransaction(), and      *)
(* every carrier is made with the handle of db.Begin() or a copy of it.     *)
(* Checked with main calling again on carriers it kept.                     *)

\* the frames a step adds
NewFrames == (Len(frames) + 1)..Len(frames')

\* the carriers a step adds
NewCarriers == (Len(heap) + 1)..Len(heap')

C31_CarriersImmutable ==
    [][/\ Len(heap') >= Len(heap)
       /\ \A k \in 1..Len(heap) : heap'[k] = heap[k]
       /\ \A f \in NewFrames :
             /\ (frames'[f].path \in {"join", "savepoint"} /\ frames'[f].pc # "skipped") =>
                   /\ frames'[f].ctx \in NewCarriers
                   /\ heap'[frames'[f].ctx].parent = frames'[f].ctxIn
                   /\ heap'[frames'[f].ctx].tx = heap[frames'[f].ctxIn].tx
             /\ frames'[f].path = "owner" =>
                   /\ frames'[f].own \in NewCarriers
                   /\ IsRoot(heap'[frames'[f].own])]_vars

\* main has called again with a carrier whose transaction was finished, the
\* call joined, and the carrier it was given is as it was made
C31_Witness ==
    \E f \in FrameIds :
       /\ GivenFinished(f)
       /\ frames[f].path = "join"
       /\ frames[f].ctx # frames[f].ctxIn
       /\ heap[frames[f].ctx].parent = frames[f].ctxIn
       /\ \E g \in FrameIds : frames[g].path = "owner" /\ frames[g].own # frames[f].ctx

----------------------------------------------------------------------------
(* C32.  In every reachable state a carrier that has a parent and a handle  *)
(* refers to the same physical transaction as the root carrier at the end   *)
(* of its parent links: its handle is the handle of that root, which is a  *)
(* handle on a transaction, and every carrier between them holds it too.    *)

\* the root carrier reached from carrier k by following parent
RECURSIVE RootOf(_)
RootOf(k) == IF IsRoot(heap[k]) THEN k ELSE RootOf(heap[k].parent)

C32_SessionSharesRootTransaction ==
    \A k \in 1..Len(heap) :
       (~IsRoot(heap[k]) /\ heap[k].tx # NilDB) =>
          /\ heap[k].parent \in 1..(k - 1)
          /\ heap[k].tx = heap[heap[k].parent].tx
          /\ heap[k].tx = heap[RootOf(k)].tx
          /\ heap[k].tx.kind = "tx"
          /\ heap[k].tx.phys # 0

\* a carrier two Session() calls away from its root
C32_Witness ==
    \E k \in 1..Len(heap) :
       /\ ~IsRoot(heap[k])
       /\ ~IsRoot(heap[heap[k].parent])
       /\ RootOf(k) # heap[k].parent
       /\ heap[k].tx = heap[RootOf(k)].tx
       /\ heap[k].tx.phys # 0

----------------------------------------------------------------------------
(* C33.  Commit() of a carrier: when the carrier is not in a transaction,   *)
(* which is what its InTransaction() tells, it returns                      *)
(* ErrCommitWithoutTransaction and calls nothing on the handle; on a root   *)
(* carrier in a transaction it calls Commit once on the handle of the       *)
(* carrier and returns the error of that call; on a carrier with a parent   *)
(* it returns nil and calls nothing.  The COMMIT reaches the database when  *)
(* the transaction was open.                                                *)

\* the direct calls of method op
DirectCalls(op) == { i \in 1..Len(direct) : direct[i].op = op }

\* the log entries direct call i wrote
Wrote(i) == (direct[i].from + 1)..direct[i].to

\* the error a call on a handle returned, read from its log entry
ErrorOf(e) ==
    CASE e.res = "ok" -> Nil
      [] e.res = "fail" -> IF e.op = "BEGIN" THEN BeginErr ELSE CommitErr
      [] e.res = "done" -> ErrTxDone
      [] e.res = "nil" -> BeginErr

----------------------------------------------------------------------------
(* C34.  Rollback() of a carrier calls Rollback exactly once on the handle  *)
(* when the carrier is in a transaction and is root, and calls nothing on   *)
(* any handle when the carrier has a parent or is not in a transaction.     *)
(* The ROLLBACK reaches the database when the transaction was open.         *)

C34_CarrierRollback ==
    \A i \in DirectCalls("Rollback") :
       LET c == heap[direct[i].on]
       IN IF InTransaction(c) /\ IsRoot(c)
          THEN /\ Cardinality(Wrote(i)) = 1
               /\ \A j \in Wrote(i) :
                     /\ log[j].op = "ROLLBACK"
                     /\ log[j].tx = c.tx.phys
                     /\ log[j].res = "ok" <=> direct[i].open
          ELSE Wrote(i) = {}

\* Rollback on the zero carrier and on the session left the transaction
\* open, Rollback on the root then ended it
C34_Witness ==
    /\ Len(direct) = 3
    /\ direct[1].op = "Rollback" /\ direct[1].on = 1
    /\ direct[2].op = "Rollback" /\ direct[2].on = 3
    /\ direct[3].op = "Rollback" /\ direct[3].on = 2 /\ direct[3].open
    /\ Len(txs) = 1 /\ txs[1].state = "rolledback"
    /\ db = {}

----------------------------------------------------------------------------
(* C35.  GetDB(ctx) returns the handle of the ambient transaction exactly   *)
(* when ctx is a carrier with a live transaction, one that is open at the   *)
(* time of the call, and the pool handle bound to ctx otherwise; it calls   *)
(* no Begin, Commit or Rollback.  GetDB tests only that the carrier has a   *)
(* handle, and a carrier keeps its handle when its transaction is over, so  *)
(* GetDB on a carrier whose root has committed or rolled back returns the   *)
(* handle of the finished transaction.  The property fails.                 *)

C35_GetDBHonoursAmbient ==
    \A i \in DirectCalls("GetDB") :
       LET ctx == direct[i].on
       IN /\ IF IsCarrier(ctx) /\ direct[i].open
             THEN direct[i].db = heap[ctx].tx
             ELSE direct[i].db = getPureDB(ctx)
          /\ Wrote(i) = {}

----------------------------------------------------------------------------
(* C36.  Once the cache holds an entry for a source and key, no step of a   *)
(* cache operation removes it or puts another handle in its place, no       *)
(* createFunc call is made for that source and key, and a Get or            *)
(* GetOrCreate that looks the key up finds the handle of the entry.         *)
(* Get and GetOrCreate keep to this; Set assigns conns[key] = db whether or *)
(* not the key has an entry, so a Set for a key that has one replaces the   *)
(* handle.  The property fails.                                             *)

\* goroutine p has looked its key up in this step
LookedUp(p) ==
    \/ procs[p].pc = "lookup" /\ procs'[p].pc = "unlock"
    \/ procs[p].pc = "read" /\ procs'[p].pc = "runlock"

C36_EntriesPermanent ==
    [][\A source \in Sources : \A key \in Keys :
          Exists(cache, source, key) =>
             /\ Exists(cache', source, key)
             /\ cache'.dbConns[source][key] = cache.dbConns[source][key]
             /\ \A c \in created' \ created : c.source # source \/ c.key # key
             /\ \A p \in Procs :
                   (LookedUp(p) /\ procs[p].source = source /\ procs[p].key = key) =>
                       procs'[p].conn = cache.dbConns[source][key]]_vars

----------------------------------------------------------------------------
(* C37.  When BEGIN fails in a frame that has to open a transaction         *)
(* (Required or Nested without ambient transaction, RequiresNew), bizFn is  *)
(* not called, Transaction returns the error of BEGIN, and the frame makes  *)
(* no Commit call.  The deferred function finds err set and calls Rollback  *)
(* on the handle of the failed Begin once; that handle has no sql.Tx, so    *)
(* the call sends nothing, and no COMMIT or ROLLBACK reaches the driver.    *)

\* the BEGIN of frame f failed
BeginFailed(f) == \E i \in Begins(f) : log[i].res = "fail"

----------------------------------------------------------------------------
(* C38.  NewConfigDBFactory called again and again with the same ConnConfig *)
(* object opens a handle at most once and gives every call a factory over   *)
(* the same handle, whatever the fields of the object, a zero Port           *)
(* included; a creation that failed may be tried again.  The key is read    *)
(* from the object before createDB patches the object: with Port 0 the      *)
(* first handle is stored under host#0#database, the object then has Port   *)
(* 5432, and the second call looks up host#5432#database, finds nothing and *)
(* opens a second handle.  The property fails.                              *)

\* the NewConfigDBFactory calls made with config object c
FactoryCalls(c) ==
    { i \in 1..Len(direct) : direct[i].op = "NewConfigDBFactory" /\ direct[i].on = c }

C38_OneHandlePerConfig ==
    \A c \in 1..Len(configs) :
       /\ Cardinality({ i \in FactoryCalls(c) : direct[i].made /\ direct[i].result = Nil }) <= 1
       /\ \A i \in FactoryCalls(c) : \A j \in FactoryCalls(c) :
             (direct[i].result = Nil /\ direct[j].result = Nil) =>
                 direct[i].db = direct[j].db
       /\ \A i \in FactoryCalls(c) : \A j \in FactoryCalls(c) :
             (i < j /\ direct[i].result = Nil) => ~direct[j].made

----------------------------------------------------------------------------
(* C39.  When createFunc panics during GetOrCreate, the deferred Unlock     *)
(* releases the lock and nothing is stored for the key: every entry of the  *)
(* cache is the handle of a createFunc call that returned without error,    *)
(* only a goroutine inside GetOrCreate holds the lock, and every goroutine  *)
(* that waits for the lock, whatever its key, gets it, and every call ends. *)

\* the createFunc calls that panicked
Panicked == { c \in created : c.err = Panic }

C39_PanicReleasesLock ==
    /\ [](/\ \A source \in DOMAIN cache.dbConns :
               \A key \in DOMAIN cache.dbConns[source] :
                  \E c \in created :
                     /\ c.err = Nil /\ c.source = source /\ c.key = key
                     /\ c.conn = cache.dbConns[source][key]
          /\ \A p \in Procs :
               /\ cache.writer = p => procs[p].pc \in {"lookup", "create", "unlock"}
               /\ (procs[p].pc = "unlock" /\ procs[p].err = Panic) =>
                      /\ procs[p].conn = NoConn
                      /\ ~Exists(cache, procs[p].source, procs[p].key))
    /\ \A p \in Procs : (procs[p].pc = "lock") ~> (procs[p].pc = "lookup")
    /\ \A p \in Procs : (procs[p].pc # "idle") ~> (procs[p].pc = "idle")

\* createFunc has panicked in one goroutine, which is out of the call; the
\* cache has no entry, the other goroutine has taken the lock after the
\* panic and is about to call createFunc for the same key
C39_Witness ==
    \E p \in Procs : \E q \in Procs \ {p} :
        /\ Panicked # {}
        /\ procs[p].pc = "idle"
        /\ cache.writer = q
        /\ procs[q].pc = "create"
        /\ \A c \in Panicked : c.source = procs[q].source /\ c.key = procs[q].key
        /\ ~Exists(cache, procs[q].source, procs[q].key)

====
